---- MODULE Spec2Model ----
(***************************************************************************)
(* Phase Calculator (Open Ephys plugin): the per-channel streaming phase   *)
(* engine of PhaseCalculator.cpp.  Two execution contexts are modelled:    *)
(* the real-time path process(), split at every access to state it shares  *)
(* with the fitting thread, and the AR-fitting thread run(), split the     *)
(* same way.  enable(), disable() and the stopped-only setters are atomic  *)
(* actions of the host.                                                    *)
(*                                                                         *)
(* Numbers.  Phases are integers, in units of 1/Scale of a degree, so that *)
(* the linear interpolation of smoothBuffer between whole degrees is       *)
(* exact; float rounding is not modelled.  Filtered samples are tags: the  *)
(* code only moves samples around, so the k-th filtered sample of a        *)
(* channel carries the value k mod m (m = SampleMod or RunMod; m = 1 where *)
(* the content does not matter), which makes any loss, duplication or      *)
(* reordering visible.  The transform (FFTW) and the Burg fit are          *)
(* external: the raw phase of a sample and the result of a fit are inputs. *)
(***************************************************************************)
EXTENDS Integers, Sequences, FiniteSets, TLC

(***************************************************************************)
(* Bounds of the model.  AR_ORDER is 20 in the source (PhaseCalculator.h   *)
(* line 75) and the window lengths are 2^9..2^16; both are scaled down.    *)
(***************************************************************************)
AR_ORDER == 2
MaxWindow == 4
MaxBlock == 3
MaxGlitch == 2

WindowLens == (AR_ORDER + 1)..MaxWindow
GlitchLimits == 0..MaxGlitch
SampleMod == MaxWindow + 2

Min(a, b) == IF a < b THEN a ELSE b
Max(a, b) == IF a > b THEN a ELSE b
Abs(a) == IF a < 0 THEN -a ELSE a

RECURSIVE Factorial(_)
Factorial(k) == IF k <= 1 THEN 1 ELSE k * Factorial(k - 1)
\* one degree, in model units: divisible by every interpolation denominator 1..MaxBlock
Scale == Factorial(MaxBlock)
Deg(d) == d * Scale
HalfTurn == Deg(180)
Turn == Deg(360)

NOT_FULL == "NOT_FULL"
FULL_NO_AR == "FULL_NO_AR"
FULL_AR == "FULL_AR"
ChannelState == {NOT_FULL, FULL_NO_AR, FULL_AR}

VARIABLES
    \* configuration (PhaseCalculator.h 173-194)
    nInputs, processLength, numFuture, historyLength, glitchLimit,
    \* per-channel internals (PhaseCalculator.h 196-234)
    fifoManager, historyFifo, chanState, sharedDataBuffer, sdbLock,
    lastSample, arParams, haveSentWarning,
    \* host: acquisition running (between enable() and disable())
    acquiring,
    \* real-time path: position in process() and its locals
    rtPc, rtChan, rtIdx, buffer, nSamples, startIndex, nSamplesToProcess,
    willBecomeFull, readPlan, currParams, dataToProcess,
    \* fitting thread: position in run(), the Thread's exit flag, locals
    arPc, shouldExit, arChan, arIdx, data, paramsTemp, myParamsFreed,
    \* input stream: tag of the next filtered sample of each channel
    seqNo,
    \* history variables
    ingested, wasPending, warnings, outState,
    \* harness for the pure functions unwrapBuffer and smoothBuffer
    fnPc, fnLast, fnLimit, fnRaw, fnUnwrapped, fnSmoothed,
    \* harness for hilbertManip: the spectrum before and after
    fftData, fftOut,
    \* the per-channel containers (part_001 188-240) as initialize() sizes
    \* them when the number of inputs changes
    perChan,
    \* channel selection
    shouldProcessChannel, processADC, chanType,
    \* CrossingDetector (CrossingDetectorEditor.h 259-288): parameters,
    \* internals, and the previous block
    direction, eventChan, eventDuration, timeout, numPrev, numNext,
    sampsToShutoff, sampsToReenable, shutoffChan, lastBuffer,
    \* history of the detector: events of the last block, time of the last ON
    \* event, gaps between consecutive ON events, OFF events still owed and
    \* OFF events that did not come
    cdEvents, cdLastOn, cdGaps, cdOwed, cdMissed, cdOnChan,
    \* PhaseCalculator parameters the editor sets (part_001 176-234)
    calcInterval, lowCut, highCut,
    \* PhaseCalculatorEditor: the last valid window length, the slider and its
    \* pending listener call, and the text of each editable field
    lastProcessLength, sliderValue, sliderMax, sliderPending, labelText,
    \* history of the editor: the last input, the setParameter calls its
    \* handler made, and the parameters it changed
    edInput, edCalls, edChanged,
    \* history of the fifo: the block in progress is the one in which the
    \* samples ingested since the last reset first reached historyLength, and
    \* the snapshot of a channel has been written since that reset
    firstFull, snapped,
    \* run() and its ARTimer (lines 539-541, 583-602, 719-737): the flag the
    \* timer callback sets, the interval the timer was started with, the time
    \* since the timer was started or rang, the position of run() between the
    \* end of a sweep and the next one, and the value check() has read
    hasRung, currInterval, elapsed, waitPc, temp

cfgVars == <<nInputs, processLength, numFuture, historyLength, glitchLimit>>
chanVars == <<fifoManager, historyFifo, chanState, sharedDataBuffer, sdbLock,
              lastSample, arParams, haveSentWarning>>
rtVars == <<rtPc, rtChan, rtIdx, buffer, nSamples, startIndex, nSamplesToProcess,
            willBecomeFull, readPlan, currParams, dataToProcess>>
arVars == <<arPc, shouldExit, arChan, arIdx, data, paramsTemp, myParamsFreed>>
histVars == <<ingested, wasPending, warnings, outState>>
hbVars == <<fftData, fftOut>>
fnVars == <<fnPc, fnLast, fnLimit, fnRaw, fnUnwrapped, fnSmoothed, hbVars,
            perChan>>
\* the channel selection: the "+CH" flags (part_001 188), the "+ADC/AUX"
\* switch (part_001 185) and the type the host gives each channel
selVars == <<shouldProcessChannel, processADC, chanType>>
cdVars == <<direction, eventChan, eventDuration, timeout, numPrev, numNext,
            sampsToShutoff, sampsToReenable, shutoffChan, lastBuffer,
            cdEvents, cdLastOn, cdGaps, cdOwed, cdMissed, cdOnChan>>
edVars == <<calcInterval, lowCut, highCut, lastProcessLength, sliderValue,
            sliderMax, sliderPending, labelText, edInput, edCalls, edChanged>>
blkVars == <<firstFull, snapped>>
tmrVars == <<hasRung, currInterval, elapsed, waitPc, temp>>
extVars == <<selVars, cdVars, edVars, blkVars, tmrVars>>
vars == <<cfgVars, chanVars, acquiring, rtVars, arVars, seqNo, histVars, fnVars,
          extVars>>

Chans == 1..nInputs

(***************************************************************************)
(* juce::AbstractFifo, as far as the plugin uses it: a record              *)
(* [size, vs, ve] of the buffer size and the valid start and end indices.  *)
(***************************************************************************)
NewFifo(n) == [size |-> n, vs |-> 0, ve |-> 0]

GetNumReady(af) == IF af.ve >= af.vs THEN af.ve - af.vs
                   ELSE af.size - (af.vs - af.ve)

GetFreeSpace(af) == af.size - GetNumReady(af) - 1

\* the block plan [start1, size1, start2, size2] of a write of num samples
PrepareToWrite(af, num) ==
    LET n1 == Min(num, GetFreeSpace(af))
        s1 == Min(af.size - af.ve, n1)
    IN  IF n1 <= 0
        THEN [start1 |-> 0, size1 |-> 0, start2 |-> 0, size2 |-> 0]
        ELSE [start1 |-> af.ve, size1 |-> s1, start2 |-> 0,
              size2 |-> IF n1 - s1 <= 0 THEN 0 ELSE Min(n1 - s1, af.vs)]

FinishedWrite(af, num) ==
    [af EXCEPT !.ve = IF af.ve + num >= af.size THEN af.ve + num - af.size
                      ELSE af.ve + num]

\* a read plan that ignores the valid-start index (no rotation)
PrepareToReadUnrotated(af, num) ==
    LET n1 == Min(num, GetNumReady(af))
    IN  [start1 |-> 0, size1 |-> Max(n1, 0), start2 |-> 0, size2 |-> 0]

PrepareToRead(af, num) ==
    LET n1 == Min(num, GetNumReady(af))
        s1 == Min(af.size - af.vs, n1)
    IN  IF n1 <= 0
        THEN [start1 |-> 0, size1 |-> 0, start2 |-> 0, size2 |-> 0]
        ELSE [start1 |-> af.vs, size1 |-> s1, start2 |-> 0,
              size2 |-> IF n1 - s1 <= 0 THEN 0 ELSE Min(n1 - s1, af.ve)]

FinishedRead(af, num) ==
    [af EXCEPT !.vs = IF af.vs + num >= af.size THEN af.vs + num - af.size
                      ELSE af.vs + num]

ResetFifo(af) == [af EXCEPT !.vs = 0, !.ve = 0]

(***************************************************************************)
(* juce::Array<T>, as a sequence; C++ index i is position i + 1.           *)
(* set(i, v) replaces an existing element and appends otherwise;           *)
(* operator[] yields a default-constructed element out of range.           *)
(***************************************************************************)
ArraySet(arr, i, v) == IF i < Len(arr) THEN [arr EXCEPT ![i + 1] = v]
                       ELSE Append(arr, v)
ArrayGet(arr, i) == IF i >= 0 /\ i < Len(arr) THEN arr[i + 1] ELSE 0
Zeros(n) == [i \in 1..n |-> 0]
At(wp, i) == wp[i + 1]
Sign(d) == IF d > 0 THEN 1 ELSE -1

\* content of freshly allocated sample memory: never a sample tag
Uninit == -1

(***************************************************************************)
(* unwrapBuffer (PhaseCalculator.cpp 357-389).                             *)
(***************************************************************************)
\* a jump test that takes a half turn for a jump too
IsJumpInclusive(diff) == Abs(diff) >= HalfTurn

\* lines 362 and 370: abs(diff) > 180
IsJump(diff) == Abs(diff) > HalfTurn

\* line 361: the step into the sample at startInd
JumpAt(wp, startInd, last) ==
    At(wp, startInd) - (IF startInd = 0 THEN last ELSE At(wp, startInd - 1))

\* a search that stops one sample before the glitch limit
RECURSIVE FindOppositeJumpShort(_, _, _, _, _)
FindOppositeJumpShort(wp, n, diff, currInd, limit) ==
    IF ~(currInd < limit /\ currInd < n) THEN <<-1, currInd>>
    ELSE LET diff2 == At(wp, currInd) - At(wp, currInd - 1)
         IN  IF IsJump(diff2) /\ ((diff > 0) # (diff2 > 0))
             THEN <<currInd, currInd>>
             ELSE FindOppositeJumpShort(wp, n, diff, currInd + 1, limit)

\* the inner search loop, lines 367-375: <<endInd, currInd>> when it exits
RECURSIVE FindOppositeJump(_, _, _, _, _)
FindOppositeJump(wp, n, diff, currInd, limit) ==
    IF ~(currInd <= limit /\ currInd < n) THEN <<-1, currInd>>
    ELSE LET diff2 == At(wp, currInd) - At(wp, currInd - 1)
         IN  IF IsJump(diff2) /\ ((diff > 0) # (diff2 > 0))
             THEN <<currInd, currInd>>
             ELSE FindOppositeJump(wp, n, diff, currInd + 1, limit)

\* an end-of-buffer rule that does not look at the direction of the jump
UnwrapEndAnyDirection(found, diff, n) ==
    IF found[1] = -1 /\ found[2] = n THEN n ELSE found[1]

\* lines 376-378: the end of the section to unwrap
UnwrapEnd(found, diff, n) ==
    IF found[1] = -1 /\ diff > 0 /\ found[2] = n THEN n ELSE found[1]

\* a shift of the section by a half turn
ShiftedByHalfTurn(wp, startInd, endInd, diff) ==
    [i \in 1..Len(wp) |->
        IF startInd <= i - 1 /\ i - 1 < endInd
        THEN wp[i] - HalfTurn * Sign(diff) ELSE wp[i]]

\* lines 381-382: unwrap [startInd, endInd)
Shifted(wp, startInd, endInd, diff) ==
    [i \in 1..Len(wp) |->
        IF startInd <= i - 1 /\ i - 1 < endInd
        THEN wp[i] - Turn * Sign(diff) ELSE wp[i]]

\* one iteration of the outer loop, lines 361-387, with the increment of
\* line 359: the buffer after it and the next startInd
UnwrapStep(wp, startInd, n, last, limit) ==
    LET diff == JumpAt(wp, startInd, last)
    IN  IF IsJump(diff)
        THEN LET found == FindOppositeJump(wp, n, diff, startInd + 1,
                                           startInd + limit)
                 endInd == UnwrapEnd(found, diff, n)
             IN  [wp |-> Shifted(wp, startInd, endInd, diff),
                  next |-> (IF endInd > -1 THEN endInd ELSE startInd) + 1]
        ELSE [wp |-> wp, next |-> startInd + 1]

\* the outer loop from startInd on, lines 359-388
RECURSIVE UnwrapFrom(_, _, _, _, _)
UnwrapFrom(wp, startInd, n, last, limit) ==
    IF ~(startInd < n - 1) THEN wp
    ELSE LET step == UnwrapStep(wp, startInd, n, last, limit)
         IN  UnwrapFrom(step.wp, step.next, n, last, limit)

UnwrapBuffer(wp, n, last, limit) == UnwrapFrom(wp, 0, n, last, limit)

\* the iterations of the outer loop from startInd on: startInd and the
\* buffer at the start of each
RECURSIVE UnwrapIterations(_, _, _, _, _)
UnwrapIterations(wp, startInd, n, last, limit) ==
    IF ~(startInd < n - 1) THEN <<>>
    ELSE LET step == UnwrapStep(wp, startInd, n, last, limit)
         IN  <<[at |-> startInd, wp |-> wp]>>
                 \o UnwrapIterations(step.wp, step.next, n, last, limit)

(***************************************************************************)
(* hilbertManip (PhaseCalculator.cpp 57-77).  A bin is a complex number    *)
(* with integer parts; a bin of the result is the fraction (re + i im)/den.*)
(***************************************************************************)
\* a last positive frequency that takes in the Nyquist bin
LastPosFreqWithNyquist(n) == n \div 2

\* line 62: ceil(n / 2.0) - 1
LastPosFreq(n) == (n + 1) \div 2 - 1

\* line 63: floor(n / 2.0) + 1
FirstNegFreq(n) == n \div 2 + 1

\* lines 66-75: what the loop does to the bin at index i
HilbertBin(z, i, n) ==
    IF i > 0 /\ i <= LastPosFreq(n)
    THEN [re |-> 2 * z.re, im |-> 2 * z.im, den |-> n]
    ELSE IF i < FirstNegFreq(n)
    THEN [re |-> z.re, im |-> z.im, den |-> n]
    ELSE [re |-> 0, im |-> 0, den |-> 1]

HilbertManip(spectrum) ==
    [j \in 1..Len(spectrum) |-> HilbertBin(spectrum[j], j - 1, Len(spectrum))]

(***************************************************************************)
(* smoothBuffer (PhaseCalculator.cpp 391-423).                             *)
(***************************************************************************)
\* the scan, lines 399-413: <<endIndex, wp>> when it exits
RECURSIVE SmoothScan(_, _, _, _)
SmoothScan(wp, i, actualMaxSL, last) ==
    IF i > actualMaxSL THEN <<-1, wp>>
    ELSE IF At(wp, i) > last THEN <<i, wp>>
    ELSE IF At(wp, i) - At(wp, i - 1) > HalfTurn /\ At(wp, i) + Turn > last
         THEN <<i, [wp EXCEPT ![i + 1] = @ + Turn]>>
    ELSE SmoothScan(wp, i + 1, actualMaxSL, last)

\* a smoothing whose scan is bounded by the block only, not by the glitch limit
SmoothBufferUnlimited(wp, n, last, limit) ==
    LET diff == At(wp, 0) - last
    IN  IF diff < 0 /\ diff > -HalfTurn
        THEN LET scan == SmoothScan(wp, 1, n - 1, last)
                 endIndex == scan[1]
                 w == scan[2]
             IN  IF endIndex # -1
                 THEN [i \in 1..Len(wp) |->
                         IF i - 1 < endIndex
                         THEN last + (i * (At(w, endIndex) - last)) \div (endIndex + 1)
                         ELSE w[i]]
                 ELSE w
        ELSE wp

\* a test that takes every downward step for a seam
IsAnyDrop(diff) == diff < 0

\* line 395: a downward step of less than a half turn
IsSmallDrop(diff) == diff < 0 /\ diff > -HalfTurn

\* an interpolation that takes endIndex steps to reach wp[endIndex]
InterpolatedFromFirst(w, endIndex, last) ==
    [i \in 1..Len(w) |->
        IF i - 1 < endIndex
        THEN last + (i * (At(w, endIndex) - last)) \div endIndex
        ELSE w[i]]

\* lines 415-420: interpolate from the buffer start to endIndex
Interpolated(w, endIndex, last) ==
    [i \in 1..Len(w) |->
        IF i - 1 < endIndex
        THEN last + (i * (At(w, endIndex) - last)) \div (endIndex + 1)
        ELSE w[i]]

SmoothBuffer(wp, n, last, limit) ==
    LET actualMaxSL == Min(limit, n - 1)
        diff == At(wp, 0) - last
    IN  IF IsSmallDrop(diff)
        THEN LET scan == SmoothScan(wp, 1, actualMaxSL, last)
                 endIndex == scan[1]
                 w == scan[2]
             IN  IF endIndex # -1
                 THEN Interpolated(w, endIndex, last)
                 ELSE w
        ELSE wp

(***************************************************************************)
(* Inputs.                                                                 *)
(***************************************************************************)
\* raw phases (degrees) the transform hands to process(): near both ends of
\* (-180, 180], so that consecutive samples can jump by more than 180
RawPhases == {Deg(-170), Deg(170)}
\* what ARMaxEntropy can return: two distinguishable coefficient vectors
FitResults == {[i \in 1..AR_ORDER |-> v] : v \in {1, 2}}
\* the next n filtered samples of channel c: tags that repeat after mod samples
FilteredBlock(c, n, mod) == [i \in 1..n |-> (seqNo[c] + i - 1) % mod]

(***************************************************************************)
(* State after construction and the first updateSettings():                *)
(* PhaseCalculator() 116-125, initialize() 633-703.                        *)
(***************************************************************************)
FreshHistory(h) == [j \in 0..h |-> Uninit]

\* part_001 69
START_AR_INTERVAL == 50

\* the timer variables have the values of a freshly started run() while no
\* thread exists
InitProcessor(n, plen, nfut) ==
    /\ nInputs = n
    /\ processLength = plen
    /\ numFuture = nfut
    /\ historyLength = plen - nfut
    /\ glitchLimit = MaxGlitch
    /\ fifoManager = [c \in 1..n |-> NewFifo(plen - nfut + 1)]
    /\ historyFifo = [c \in 1..n |-> FreshHistory(plen - nfut)]
    /\ chanState = [c \in 1..n |-> NOT_FULL]
    /\ sharedDataBuffer = [c \in 1..n |-> <<>>]
    /\ sdbLock = [c \in 1..n |-> "free"]
    /\ lastSample = [c \in 1..n |-> 0]
    /\ arParams = [c \in 1..n |-> Zeros(AR_ORDER)]
    /\ haveSentWarning = FALSE
    /\ acquiring = FALSE
    /\ rtPc = "idle" /\ rtChan = 1 /\ rtIdx = 0 /\ buffer = <<>>
    /\ nSamples = 0 /\ startIndex = 0 /\ nSamplesToProcess = 0
    /\ willBecomeFull = FALSE
    /\ readPlan = [start1 |-> 0, size1 |-> 0, start2 |-> 0, size2 |-> 0]
    /\ currParams = <<>>
    /\ dataToProcess = <<>>
    /\ arPc = "idle" /\ shouldExit = FALSE /\ arChan = 1 /\ arIdx = 0
    /\ data = <<>> /\ paramsTemp = Zeros(AR_ORDER) /\ myParamsFreed = FALSE
    /\ seqNo = [c \in 1..n |-> 0]
    /\ ingested = [c \in 1..n |-> 0]
    /\ wasPending = [c \in 1..n |-> FALSE]
    /\ warnings = 0
    /\ outState = "none"
    /\ firstFull = FALSE
    /\ hasRung = FALSE /\ currInterval = START_AR_INTERVAL /\ elapsed = 0
    /\ waitPc = "update" /\ temp = FALSE
    /\ snapped = [c \in 1..n |-> FALSE]

\* ChannelType of the host: what getType() (line 217) can return
DATA_CHANNEL == "DATA_CHANNEL"
ADC_CHANNEL == "ADC_CHANNEL"
AUX_CHANNEL == "AUX_CHANNEL"
ChannelType == {DATA_CHANNEL, ADC_CHANNEL, AUX_CHANNEL}

\* PhaseCalculator() line 120 and updateSettings() lines 658-659: every
\* channel selected, "+ADC/AUX" off; here with data channels only
InitSelection(n) ==
    /\ shouldProcessChannel = [c \in 1..n |-> TRUE]
    /\ processADC = FALSE
    /\ chanType = [c \in 1..n |-> DATA_CHANNEL]

\* bounds of the detector's inputs
MaxCdBlock == 2
MaxTimeout == 2
MaxDuration == 1
MaxNum == 1
\* a gap between two ON events that is longer than every timeout
CdFar == MaxTimeout + 1

\* enum CrossingDirection (CrossingDetectorEditor.h 193-194)
dNone == "dNone"
dPos == "dPos"
dNeg == "dNeg"
dPosOrNeg == "dPosOrNeg"

\* CrossingDetector(), part_003 27-31, after the parameters were set to
\* (dir, dur, tmo, nPrev, nNext); setParameter(pNumPrev) leaves
\* sampsToReenable = numPrev (185-188)
InitDetector(dir, dur, tmo, nPrev, nNext) ==
    /\ direction = dir /\ eventChan = 0
    /\ eventDuration = dur /\ timeout = tmo
    /\ numPrev = nPrev /\ numNext = nNext
    /\ sampsToShutoff = -1 /\ sampsToReenable = nPrev /\ shutoffChan = -1
    /\ lastBuffer = <<>>
    /\ cdEvents = <<>> /\ cdLastOn = -CdFar /\ cdGaps = {} /\ cdOwed = {}
    /\ cdMissed = {} /\ cdOnChan = -1

\* the window lengths the combo box accepts are 1 << MIN_PLEN_POW to
\* 1 << MAX_PLEN_POW (part_001 57-59), here scaled to the model's AR_ORDER
MIN_PLEN_POW == 2
START_PLEN_POW == 2
MAX_PLEN_POW == 3
\* the limits' range 0 to INT_MAX (PhaseCalculatorEditor.cpp 331, 339)
INT_MAX == 2147483647
\* the cutoffs' range 0.01F to 10000.0F (PhaseCalculatorEditor.cpp 347, 355)
\* and START_LOW_CUT, START_HIGH_CUT (part_001 80-81), in hundredths
CUT_MIN == 1
CUT_MAX == 1000000
START_LOW_CUT == 400
START_HIGH_CUT == 800

Fields == {"processLength", "numPast", "numFuture", "calcInterval", "glitchLim",
           "lowCut", "highCut"}

NoInput == [kind |-> "none", field |-> "", text |-> <<>>, attrs |-> <<>>]

(***************************************************************************)
(* PhaseCalculatorEditor (PhaseCalculatorEditor.cpp).  A text is a         *)
(* sequence of characters; a float is a record [nan, v] with v in          *)
(* hundredths.  The handlers are functions on a record e of the            *)
(* processor's parameters and the editor's fields, with the setParameter   *)
(* calls they make collected in e.calls.                                   *)
(***************************************************************************)
DigitChars == <<"0", "1", "2", "3", "4", "5", "6", "7", "8", "9">>
IsDigit(ch) == \E i \in 1..10 : DigitChars[i] = ch
DigitVal(ch) == (CHOOSE i \in 1..10 : DigitChars[i] = ch) - 1

\* the digits of text from position i on: their value v, their number n and
\* the position after them
RECURSIVE ReadDigits(_, _, _, _)
ReadDigits(text, i, v, n) ==
    IF i <= Len(text) /\ IsDigit(text[i])
    THEN ReadDigits(text, i + 1, 10 * v + DigitVal(text[i]), n + 1)
    ELSE [v |-> v, n |-> n, next |-> i]

\* std::stoi (line 38): an optional sign and the longest run of digits;
\* throws (ok = FALSE) when there is no digit.  Texts of the model are too
\* short to leave the range of int
Stoi(text) ==
    LET signed == Len(text) >= 1 /\ text[1] \in {"-", "+"}
        d == ReadDigits(text, IF signed THEN 2 ELSE 1, 0, 0)
    IN  IF d.n = 0 THEN [ok |-> FALSE, v |-> 0]
        ELSE [ok |-> TRUE, v |-> IF signed /\ text[1] = "-" THEN -d.v ELSE d.v]

NaN == [nan |-> TRUE, v |-> 0]
Num(v) == [nan |-> FALSE, v |-> v]

\* std::stof (line 61): an optional sign, then "nan" or digits with an
\* optional fraction (up to two fraction digits in the model); throws when
\* there is neither
Stof(text) ==
    LET signed == Len(text) >= 1 /\ text[1] \in {"-", "+"}
        first == IF signed THEN 2 ELSE 1
        isNan == /\ Len(text) >= first + 2
                 /\ SubSeq(text, first, first + 2) = <<"n", "a", "n">>
        d == ReadDigits(text, first, 0, 0)
        f == IF d.next <= Len(text) /\ text[d.next] = "."
             THEN ReadDigits(text, d.next + 1, 0, 0)
             ELSE [v |-> 0, n |-> 0, next |-> d.next]
        mag == 100 * d.v + (IF f.n = 1 THEN 10 * f.v ELSE f.v)
    IN  IF isNan THEN [ok |-> TRUE, f |-> NaN]
        ELSE IF d.n = 0 /\ f.n = 0 THEN [ok |-> FALSE, f |-> Num(0)]
        ELSE [ok |-> TRUE,
              f |-> Num(IF signed /\ text[1] = "-" THEN -mag ELSE mag)]

\* operator < of float: false when either side is NaN
FloatLess(a, b) == ~a.nan /\ ~b.nan /\ a.v < b.v

\* parseInput(String&, int, int, int*), lines 33-53
ParseInputInt(input, min, max) ==
    LET r == Stoi(input)
    IN  [ok |-> r.ok,
         out |-> IF r.v < min THEN min ELSE IF r.v > max THEN max ELSE r.v]

\* parseInput(String&, float, float, float*), lines 56-76
ParseInputFloat(input, min, max) ==
    LET r == Stof(input)
    IN  [ok |-> r.ok,
         out |-> IF FloatLess(r.f, min) THEN min
                 ELSE IF FloatLess(max, r.f) THEN max ELSE r.f]

RECURSIVE DigitsOf(_)
DigitsOf(v) ==
    IF v < 10 THEN <<DigitChars[v + 1]>>
    ELSE Append(DigitsOf(v \div 10), DigitChars[(v % 10) + 1])

\* String(int)
IntToText(v) == IF v < 0 THEN <<"-">> \o DigitsOf(-v) ELSE DigitsOf(v)

\* String(float), for the values of the model: the fraction is printed when
\* there is one
FloatToText(f) ==
    IF f.nan THEN <<"n", "a", "n">>
    ELSE LET mag == Abs(f.v)
             whole == IntToText(IF f.v < 0 THEN -(mag \div 100) ELSE mag \div 100)
         IN  IF mag % 100 = 0 THEN whole
             ELSE whole \o <<".">> \o DigitsOf((mag % 100) \div 10)
                        \o DigitsOf(mag % 10)

Pow2(p) == 2 ^ p

\* the processor and the editor as the handlers see them
EditorView ==
    [pl |-> processLength, nf |-> numFuture, calc |-> calcInterval,
     glitch |-> glitchLimit, adc |-> processADC, low |-> lowCut, high |-> highCut,
     lastPL |-> lastProcessLength, sval |-> sliderValue, smax |-> sliderMax,
     pend |-> sliderPending, txt |-> labelText, calls |-> <<>>]

\* the processor's parameters in a view
ParamsOf(e) ==
    [pl |-> e.pl, nf |-> e.nf, calc |-> e.calc, glitch |-> e.glitch,
     adc |-> e.adc, low |-> e.low, high |-> e.high]

\* PhaseCalculator::setParameter, lines 153-199, as far as the parameters go
SetParameter(e, p, v) ==
    LET e1 == [e EXCEPT !.calls = Append(@, <<p, v>>)]
    IN  CASE p = "pQueueSize" -> [e1 EXCEPT !.pl = v]
          [] p = "pNumFuture" -> [e1 EXCEPT !.nf = v]
          [] p = "pRecalcInterval" -> [e1 EXCEPT !.calc = v]
          [] p = "pGlitchLimit" -> [e1 EXCEPT !.glitch = v]
          [] p = "pAdcEnabled" -> [e1 EXCEPT !.adc = v]
          [] p = "pLowcut" -> [e1 EXCEPT !.low = v]
          [] p = "pHighcut" -> [e1 EXCEPT !.high = v]

\* updateLabel, lines 362-374: the text of the field after the parse
UpdateLabel(e, field, parsed, valueText, defaultText) ==
    [e EXCEPT !.txt[field] = IF parsed.ok THEN valueText ELSE defaultText]

\* roundf(a / b) for a >= 0, b > 0
RoundDiv(a, b) == (2 * a + b) \div (2 * b)

\* ProcessBufferSlider::updateFromProcessor, lines 491-499, with snapValue,
\* lines 483-489: the listener is called later, if a setValue changed the
\* value
UpdateFromProcessor(e) ==
    LET v0 == Min(e.sval, e.pl)
        v1 == AR_ORDER
        v2 == Max(e.pl - e.nf, AR_ORDER)
    IN  [e EXCEPT !.smax = e.pl, !.sval = v2,
                  !.pend = (e.pend \/ v0 # v1 \/ v1 # v2)]

\* the two calls with the window length always first
SetWindowLengthFirst(e, newProcessLength, newNumFuture) ==
    IF e.pl # newProcessLength
    THEN SetParameter(SetParameter(e, "pQueueSize", newProcessLength),
                      "pNumFuture", newNumFuture)
    ELSE e

\* lines 276-288: the order of the two calls
SetWindow(e, newProcessLength, newNumFuture) ==
    IF e.pl < newProcessLength
    THEN SetParameter(SetParameter(e, "pQueueSize", newProcessLength),
                      "pNumFuture", newNumFuture)
    ELSE IF e.pl > newProcessLength
    THEN SetParameter(SetParameter(e, "pNumFuture", newNumFuture),
                      "pQueueSize", newProcessLength)
    ELSE e

\* comboBoxChanged, lines 241-293; newId = 0 when the text is not an item's
ComboBoxChanged(e, newId) ==
    LET parsed == ParseInputInt(e.txt["processLength"],
                                Pow2(MIN_PLEN_POW), Pow2(MAX_PLEN_POW))
    IN  IF newId = 0 /\ ~parsed.ok
        THEN [e EXCEPT !.txt["processLength"] = IntToText(e.lastPL)]
        ELSE LET newProcessLength == IF newId # 0 THEN Pow2(newId) ELSE parsed.out
                 e0 == [e EXCEPT !.txt["processLength"] = IntToText(newProcessLength)]
                 newNumFuture ==
                     IF newProcessLength <= AR_ORDER THEN 0
                     ELSE Min(RoundDiv(e.nf * newProcessLength, e.pl),
                              newProcessLength - AR_ORDER)
                 e1 == SetWindow(e0, newProcessLength, newNumFuture)
             IN  UpdateFromProcessor([e1 EXCEPT !.lastPL = newProcessLength])

\* labelTextChanged, lines 295-360, for the label named field
LabelTextChanged(e, field) ==
    LET input == e.txt[field]
        sliderMin == AR_ORDER
        sliderMax_ == e.smax
    IN  CASE field = "numPast" ->
               LET r == ParseInputInt(input, sliderMin, sliderMax_)
                   e1 == UpdateLabel(e, field, r, IntToText(r.out), IntToText(e.sval))
                   newNumFuture == sliderMax_ - r.out
               IN  IF r.ok
                   THEN SetParameter([e1 EXCEPT !.sval = r.out,
                                                !.txt["numFuture"] = IntToText(newNumFuture)],
                                     "pNumFuture", newNumFuture)
                   ELSE e1
          [] field = "numFuture" ->
               LET r == ParseInputInt(input, 0, sliderMax_ - sliderMin)
                   e1 == UpdateLabel(e, field, r, IntToText(r.out),
                                     IntToText(sliderMax_ - e.sval))
                   newNumPast == sliderMax_ - r.out
               IN  IF r.ok
                   THEN SetParameter([e1 EXCEPT !.sval = newNumPast,
                                                !.txt["numPast"] = IntToText(newNumPast)],
                                     "pNumFuture", r.out)
                   ELSE e1
          [] field = "calcInterval" ->
               LET r == ParseInputInt(input, 0, INT_MAX)
                   e1 == UpdateLabel(e, field, r, IntToText(r.out), IntToText(e.calc))
               IN  IF r.ok THEN SetParameter(e1, "pRecalcInterval", r.out) ELSE e1
          [] field = "glitchLim" ->
               LET r == ParseInputInt(input, 0, INT_MAX)
                   e1 == UpdateLabel(e, field, r, IntToText(r.out), IntToText(e.glitch))
               IN  IF r.ok THEN SetParameter(e1, "pGlitchLimit", r.out) ELSE e1
          [] field = "lowCut" ->
               LET r == ParseInputFloat(input, Num(CUT_MIN), Num(CUT_MAX))
                   e1 == UpdateLabel(e, field, r, FloatToText(r.out), FloatToText(e.low))
               IN  IF r.ok THEN SetParameter(e1, "pLowcut", r.out) ELSE e1
          [] field = "highCut" ->
               LET r == ParseInputFloat(input, Num(CUT_MIN), Num(CUT_MAX))
                   e1 == UpdateLabel(e, field, r, FloatToText(r.out), FloatToText(e.high))
               IN  IF r.ok THEN SetParameter(e1, "pHighcut", r.out) ELSE e1

\* sliderEvent, lines 376-387
SliderEventOn(e) ==
    LET newVal == e.sval
        maxVal == e.smax
    IN  SetParameter([e EXCEPT !.txt["numPast"] = IntToText(newVal),
                               !.txt["numFuture"] = IntToText(maxVal - newVal),
                               !.pend = FALSE],
                     "pNumFuture", maxVal - newVal)

\* an attribute of the VALUES element: absent, or a text
Absent == [has |-> FALSE, text |-> <<>>]
Attr(text) == [has |-> TRUE, text |-> text]

\* Label::setText(..., sendNotificationSync): the listener is called when the
\* text changes
LoadLabel(e, field, attr) ==
    LET text == IF attr.has THEN attr.text ELSE e.txt[field]
    IN  IF text = e.txt[field] THEN e
        ELSE LabelTextChanged([e EXCEPT !.txt[field] = text], field)

\* XmlElement::getBoolAttribute
BoolOf(text) == Len(text) > 0 /\ text[1] \in {"1", "t", "y", "T", "Y"}

\* ComboBox::setText(..., sendNotificationSync), line 461: the listener is
\* called when the text changes; an item's text and the same text typed in
\* give the same window length
LoadCombo(e, attr) ==
    LET text == IF attr.has THEN attr.text ELSE IntToText(e.lastPL)
    IN  IF text = e.txt["processLength"] THEN e
        ELSE ComboBoxChanged([e EXCEPT !.txt["processLength"] = text], 0)

\* Button::setToggleState(..., sendNotificationSync), line 465, with
\* buttonEvent, lines 404-408
LoadToggle(e, attr) ==
    LET b == IF attr.has THEN BoolOf(attr.text) ELSE e.adc
    IN  IF b # e.adc THEN SetParameter(e, "pAdcEnabled", b) ELSE e

\* loadCustomParameters, lines 457-469, on the attributes attrs: the
\* statements in their order, the first innermost, each on the view the one
\* before it left
LoadCustomParameters(e, attrs) ==
    LoadLabel(
      LoadLabel(
        LoadToggle(
          LoadLabel(
            LoadLabel(
              LoadLabel(
                LoadCombo(e, attrs["processLength"]),
                "numFuture", attrs["numFuture"]),
              "calcInterval", attrs["calcInterval"]),
            "glitchLim", attrs["glitchLim"]),
          attrs["processADC"]),
        "lowCut", attrs["lowCut"]),
      "highCut", attrs["highCut"])

\* what a handler that ends with the view e leaves behind: the editor's
\* fields, and in the processor the parameters and what initialize()
\* (pQueueSize, lines 157-162) or setNumFuture() (lines 705-717) rebuilt
Handled(e, input) ==
    LET ps == {e.calls[i][1] : i \in DOMAIN e.calls}
        hasQ == "pQueueSize" \in ps
        resized == hasQ \/ "pNumFuture" \in ps
        h == e.pl - e.nf
    IN  /\ processLength' = e.pl /\ numFuture' = e.nf
        /\ glitchLimit' = e.glitch /\ processADC' = e.adc
        /\ calcInterval' = e.calc /\ lowCut' = e.low /\ highCut' = e.high
        /\ historyLength' = IF resized THEN h ELSE historyLength
        /\ fifoManager' = IF resized THEN [c \in Chans |-> NewFifo(h + 1)]
                          ELSE fifoManager
        /\ historyFifo' = IF resized THEN [c \in Chans |-> FreshHistory(h)]
                          ELSE historyFifo
        /\ ingested' = IF resized THEN [c \in Chans |-> 0] ELSE ingested
        /\ chanState' = IF hasQ THEN [c \in Chans |-> NOT_FULL] ELSE chanState
        /\ lastSample' = IF hasQ THEN [c \in Chans |-> 0] ELSE lastSample
        /\ sharedDataBuffer' = IF hasQ THEN [c \in Chans |-> <<>>] ELSE sharedDataBuffer
        /\ sdbLock' = IF hasQ THEN [c \in Chans |-> "free"] ELSE sdbLock
        /\ arParams' = IF hasQ THEN [c \in Chans |-> Zeros(AR_ORDER)] ELSE arParams
        /\ myParamsFreed' = IF hasQ THEN arPc = "write" ELSE myParamsFreed
        /\ wasPending' = IF hasQ THEN [c \in Chans |-> FALSE] ELSE wasPending
        /\ snapped' = IF resized THEN [c \in Chans |-> FALSE] ELSE snapped
        /\ lastProcessLength' = e.lastPL
        /\ sliderValue' = e.sval /\ sliderMax' = e.smax /\ sliderPending' = e.pend
        /\ labelText' = e.txt
        /\ edCalls' = e.calls
        /\ edInput' = input
        /\ edChanged' = {p \in DOMAIN ParamsOf(e) :
                            ParamsOf(e)[p] # ParamsOf(EditorView)[p]}
        /\ UNCHANGED <<nInputs, haveSentWarning, acquiring, rtVars, arPc, shouldExit,
                       arChan, arIdx, data, paramsTemp, seqNo, warnings, outState,
                       fnVars, shouldProcessChannel, chanType, cdVars,
                       firstFull, tmrVars>>

StoppedOnly == {"processLength", "numPast", "numFuture", "lowCut", "highCut"}

\* the user leaves the label named field with a new text in it
EditLabel(field, text) ==
    /\ field \in StoppedOnly => ~acquiring
    /\ text # labelText[field]
    /\ \E e \in {LabelTextChanged([EditorView EXCEPT !.txt[field] = text], field)} :
           Handled(e, [kind |-> "label", field |-> field, text |-> text,
                       attrs |-> <<>>])

\* the user types a window length into the combo box
EditComboText(text) ==
    /\ ~acquiring
    /\ text # labelText["processLength"]
    /\ \E e \in {ComboBoxChanged([EditorView EXCEPT
                                      !.txt["processLength"] = text], 0)} :
           Handled(e, [kind |-> "combo", field |-> "processLength", text |-> text,
                       attrs |-> <<>>])

\* the user picks the item 1 << id of the combo box
SelectComboItem(id) ==
    /\ ~acquiring
    /\ IntToText(Pow2(id)) # labelText["processLength"]
    /\ \E e \in {ComboBoxChanged([EditorView EXCEPT
                                      !.txt["processLength"] = IntToText(Pow2(id))],
                                  id)} :
           Handled(e, [kind |-> "item", field |-> "processLength",
                       text |-> IntToText(Pow2(id)), attrs |-> <<>>])

\* the slider's listener, called after updateFromProcessor
SliderEvent ==
    /\ sliderPending
    /\ \E e \in {SliderEventOn(EditorView)} :
           Handled(e, [kind |-> "slider", field |-> "numFuture", text |-> <<>>,
                       attrs |-> <<>>])

\* the user drags the slider to v; snapValue, lines 483-489, keeps the value
\* at realMinValue = AR_ORDER (line 473) or above, the range ends at the
\* slider's maximum; the slider is disabled during acquisition (line 424)
DragSlider(v) ==
    /\ ~acquiring
    /\ v \in AR_ORDER..sliderMax
    /\ v # sliderValue
    /\ \E e \in {SliderEventOn([EditorView EXCEPT !.sval = v])} :
           Handled(e, [kind |-> "drag", field |-> "numFuture",
                       text |-> IntToText(v), attrs |-> <<>>])

\* a saved configuration is loaded
Load(attrs) ==
    /\ ~acquiring
    /\ \E e \in {LoadCustomParameters(EditorView, attrs)} :
           Handled(e, [kind |-> "load", field |-> "", text |-> <<>>,
                       attrs |-> attrs])

\* PhaseCalculatorEditor(), lines 79-239, on a processor with window plen
\* and nfut predicted samples, after the slider's first listener call
InitEditor(plen, nfut) ==
    /\ calcInterval = START_AR_INTERVAL
    /\ lowCut = Num(START_LOW_CUT) /\ highCut = Num(START_HIGH_CUT)
    /\ lastProcessLength = plen
    /\ sliderValue = plen - nfut /\ sliderMax = plen /\ sliderPending = FALSE
    /\ labelText = [f \in Fields |->
           CASE f = "processLength" -> IntToText(plen)
             [] f = "numPast" -> IntToText(plen - nfut)
             [] f = "numFuture" -> IntToText(nfut)
             [] f = "calcInterval" -> IntToText(START_AR_INTERVAL)
             [] f = "glitchLim" -> IntToText(MaxGlitch)
             [] f = "lowCut" -> FloatToText(Num(START_LOW_CUT))
             [] f = "highCut" -> FloatToText(Num(START_HIGH_CUT))]
    /\ edInput = NoInput /\ edCalls = <<>> /\ edChanged = {}

InitEngine(n, plen, nfut) ==
    /\ InitProcessor(n, plen, nfut)
    /\ InitSelection(n)
    /\ InitDetector(dPos, 1, 1, 1, 1)
    /\ InitEditor(plen, nfut)

HilbertIdle == fftData = <<>> /\ fftOut = <<>>

(***************************************************************************)
(* initialize() (PhaseCalculator.cpp 633-703) on the containers alone:     *)
(* perChan is a record of the channel count of historyFifo, the arrays of  *)
(* plain values and, by name, the OwnedArrays, whose objects are "new" if  *)
(* the latest initialize() created them and "old" otherwise.               *)
(***************************************************************************)
OwnedNames == {"fifoManager", "sharedDataBuffer", "dataToProcess", "fftData",
               "dataOut", "pForward", "pBackward", "sdbLock", "arParams",
               "filters"}

\* the containers before the constructor's initialize()
NoChannels ==
    [numChannels |-> 0, chanState |-> <<>>, lastSample |-> <<>>,
     shouldProcessChannel |-> <<>>, owned |-> [name \in OwnedNames |-> <<>>]]

\* juce::OwnedArray::remove and juce::Array::remove: nothing happens for an
\* index past the end
ArrayRemove(arr, i) ==
    IF i < Len(arr)
    THEN [k \in 1..(Len(arr) - 1) |-> IF k <= i THEN arr[k] ELSE arr[k + 1]]
    ELSE arr

\* every object that exists when initialize() starts
Aged(p) ==
    [p EXCEPT !.owned = [name \in OwnedNames |->
                            [k \in 1..Len(p.owned[name]) |-> "old"]]]

\* lines 647-684: the branch index < nInputs
CreateAt(p, index) ==
    [p EXCEPT !.chanState = ArraySet(@, index, NOT_FULL),
              !.lastSample = ArraySet(@, index, 0),
              !.shouldProcessChannel =
                  IF index >= Len(@) THEN ArraySet(@, index, TRUE) ELSE @,
              !.owned = [name \in OwnedNames |-> ArraySet(@[name], index, "new")]]

\* lines 686-699: the branch index >= nInputs
RemoveAt(p, index) ==
    [p EXCEPT !.owned = [name \in OwnedNames |-> ArrayRemove(@[name], index)]]

\* lines 645-700: the loop from index on
RECURSIVE InitializeLoop(_, _, _, _)
InitializeLoop(p, index, n, last) ==
    IF index >= last THEN p
    ELSE InitializeLoop(IF index < n THEN CreateAt(p, index)
                        ELSE RemoveAt(p, index),
                        index + 1, n, last)

\* lines 635-701 for n inputs
Initialize(p, n) ==
    InitializeLoop([Aged(p) EXCEPT !.numChannels = n], 0, n,
                   Max(p.numChannels, n))

\* the containers after the constructor (line 124), a processor without inputs
ContainersIdle == perChan = Initialize(NoChannels, 0)

FnIdle ==
    /\ fnPc = "off" /\ fnLast = 0 /\ fnLimit = 0
    /\ fnRaw = <<>> /\ fnUnwrapped = <<>> /\ fnSmoothed = <<>>
    /\ HilbertIdle
    /\ ContainersIdle

Init == InitEngine(1, AR_ORDER + 1, 1) /\ FnIdle

(***************************************************************************)
(* process() (PhaseCalculator.cpp 202-355), one channel after the other.   *)
(***************************************************************************)
\* the loop header: on to the next channel, or the block is done
NextChannel ==
    IF rtChan < nInputs
    THEN rtPc' = "chan" /\ rtChan' = rtChan + 1
    ELSE rtPc' = "idle" /\ rtChan' = 1

AtChannelStart == (rtPc = "idle" /\ acquiring) \/ rtPc = "chan"

\* a selection test that looks at the "+CH" flag only
SelectedByFlagOnly(c) == shouldProcessChannel[c]

\* lines 212-219: does process() go on with channel c?
\* the first channel's selection, whatever the channel
SelectedLikeFirst(c) ==
    /\ shouldProcessChannel[1]
    /\ ~(~processADC /\ chanType[1] \in {ADC_CHANNEL, AUX_CHANNEL})

Selected(c) ==
    /\ shouldProcessChannel[c]
    /\ ~(~processADC /\ chanType[c] \in {ADC_CHANNEL, AUX_CHANNEL})

\* samples of channel c as the host hands them to process()
InputBlock(c, n, mod) == [i \in 1..n |-> (seqNo[c] + i - 1) % mod]

\* lines 212-219: a channel that is not selected; the host's n samples stay
\* in the buffer as they are
ProcessBypass(n, mod) ==
    /\ AtChannelStart
    /\ ~Selected(rtChan)
    /\ NextChannel
    /\ buffer' = InputBlock(rtChan, n, mod)
    /\ UNCHANGED <<cfgVars, chanVars, acquiring, rtIdx, nSamples,
                   startIndex, nSamplesToProcess, willBecomeFull, readPlan,
                   currParams, arVars, seqNo, histVars, fnVars,
                   dataToProcess, extVars>>

\* lines 221-223: an empty block for this channel
ProcessSkip ==
    /\ AtChannelStart
    /\ Selected(rtChan)
    /\ NextChannel
    /\ buffer' = <<>>
    /\ UNCHANGED <<cfgVars, chanVars, acquiring, rtIdx, nSamples,
                   startIndex, nSamplesToProcess, willBecomeFull, readPlan,
                   currParams, arVars, seqNo, histVars, fnVars,
                   dataToProcess, extVars>>

\* moveToFifo, lines 83-109: the channel's fifo memory after the copy
MoveToFifo(af, from, to, start, nData) ==
    LET plan == PrepareToWrite(af, nData)
    IN  [j \in DOMAIN to |->
           IF plan.start1 <= j /\ j < plan.start1 + plan.size1
           THEN At(from, start + (j - plan.start1))
           ELSE IF plan.start2 <= j /\ j < plan.start2 + plan.size2
           THEN At(from, start + plan.size1 + (j - plan.start2))
           ELSE to[j]]

\* line 241
StartIndex(n) == Max(n - historyLength, 0)

\* a warning that is not held back by haveSentWarning
WarningDueEveryTime(start) == start # 0

\* lines 243-247: is the status message sent for a block truncated at start?
WarningDue(start) == start # 0 /\ ~haveSentWarning

\* lines 235-267: filter, truncate (with the one-time warning), enqueue
ProcessIngest(n, mod) ==
    /\ AtChannelStart
    /\ Selected(rtChan)
    /\ n > 0
    /\ LET c == rtChan
           filtered == FilteredBlock(c, n, mod)
           start == StartIndex(n)
           toProcess == n - start
           af == fifoManager[c]
           nSamplesToClear == toProcess - GetFreeSpace(af)
           af1 == FinishedRead(af, Max(0, nSamplesToClear))
       IN  /\ nSamples' = n
           /\ startIndex' = start
           /\ nSamplesToProcess' = toProcess
           /\ buffer' = [i \in 1..n |-> IF i <= start THEN 0 ELSE filtered[i]]
           /\ haveSentWarning' = (haveSentWarning \/ start # 0)
           /\ warnings' = IF WarningDue(start)
                          THEN Min(warnings + 1, 2) ELSE warnings
           /\ willBecomeFull' = (chanState[c] = NOT_FULL /\ nSamplesToClear >= 0)
           /\ historyFifo' = [historyFifo EXCEPT
                                ![c] = MoveToFifo(af1, filtered, @, start, toProcess)]
           /\ fifoManager' = [fifoManager EXCEPT ![c] = FinishedWrite(af1, toProcess)]
           /\ seqNo' = [seqNo EXCEPT ![c] = (@ + n) % mod]
           /\ ingested' = [ingested EXCEPT ![c] = Min(@ + toProcess, historyLength)]
           /\ firstFull' = (ingested[c] < historyLength
                             /\ ingested[c] + toProcess >= historyLength)
    /\ rtPc' = "snapCheck"
    /\ UNCHANGED <<cfgVars, chanState, sharedDataBuffer, sdbLock, lastSample,
                   arParams, acquiring, rtChan, rtIdx, readPlan, currParams,
                   arVars, wasPending, outState, fnVars,
                   dataToProcess, selVars, cdVars, edVars, snapped, tmrVars>>

\* lines 271-278: is the snapshot due?  If so, plan the rotated read
ProcessSnapshotCheck ==
    /\ rtPc = "snapCheck"
    /\ IF chanState[rtChan] # NOT_FULL \/ willBecomeFull
       THEN /\ readPlan' = PrepareToRead(fifoManager[rtChan], historyLength)
            /\ rtPc' = "lock"
       ELSE /\ rtPc' = "output"
            /\ UNCHANGED readPlan
    /\ UNCHANGED <<cfgVars, chanVars, acquiring, rtChan, rtIdx, buffer, nSamples,
                   startIndex, nSamplesToProcess, willBecomeFull, currParams,
                   arVars, seqNo, histVars, fnVars,
                   dataToProcess, extVars>>

\* line 283: enter the critical section of this channel's sharedDataBuffer
ProcessLock ==
    /\ rtPc = "lock"
    /\ sdbLock[rtChan] = "free"
    /\ sdbLock' = [sdbLock EXCEPT ![rtChan] = "rt"]
    /\ rtPc' = "snapWrite"
    /\ rtIdx' = 0
    /\ UNCHANGED <<cfgVars, fifoManager, historyFifo, chanState, sharedDataBuffer,
                   lastSample, arParams, haveSentWarning, acquiring, rtChan, buffer,
                   nSamples, startIndex, nSamplesToProcess, willBecomeFull, readPlan,
                   currParams, arVars, seqNo, histVars, fnVars,
                   dataToProcess, extVars>>

\* lines 285-292: one element of the snapshot
ProcessSnapshotWrite ==
    /\ rtPc = "snapWrite"
    /\ rtIdx < readPlan.size1 + readPlan.size2
    /\ LET c == rtChan
           v == IF rtIdx < readPlan.size1
                THEN historyFifo[c][readPlan.start1 + rtIdx]
                ELSE historyFifo[c][readPlan.start2 + (rtIdx - readPlan.size1)]
       IN  sharedDataBuffer' = [sharedDataBuffer EXCEPT ![c] = ArraySet(@, rtIdx, v)]
    /\ rtIdx' = rtIdx + 1
    /\ UNCHANGED <<cfgVars, fifoManager, historyFifo, chanState, sdbLock, lastSample,
                   arParams, haveSentWarning, acquiring, rtPc, rtChan, buffer,
                   nSamples, startIndex, nSamplesToProcess, willBecomeFull, readPlan,
                   currParams, arVars, seqNo, histVars, fnVars,
                   dataToProcess, extVars>>

\* line 293: leave the critical section
ProcessUnlock ==
    /\ rtPc = "snapWrite"
    /\ rtIdx >= readPlan.size1 + readPlan.size2
    /\ sdbLock' = [sdbLock EXCEPT ![rtChan] = "free"]
    /\ rtPc' = "promote"
    /\ snapped' = [snapped EXCEPT ![rtChan] = TRUE]
    /\ UNCHANGED <<cfgVars, fifoManager, historyFifo, chanState, sharedDataBuffer,
                   lastSample, arParams, haveSentWarning, acquiring, rtChan, rtIdx,
                   buffer, nSamples, startIndex, nSamplesToProcess, willBecomeFull,
                   readPlan, currParams, arVars, seqNo, histVars, fnVars,
                   dataToProcess, selVars, cdVars, edVars, firstFull, tmrVars>>

\* lines 296-298: the fitting thread may start on this channel
ProcessPromote ==
    /\ rtPc = "promote"
    /\ IF chanState[rtChan] = NOT_FULL
       THEN /\ chanState' = [chanState EXCEPT ![rtChan] = FULL_NO_AR]
            /\ wasPending' = [wasPending EXCEPT ![rtChan] = TRUE]
       ELSE UNCHANGED <<chanState, wasPending>>
    /\ rtPc' = "output"
    /\ UNCHANGED <<cfgVars, fifoManager, historyFifo, sharedDataBuffer, sdbLock,
                   lastSample, arParams, haveSentWarning, acquiring, rtChan, rtIdx,
                   buffer, nSamples, startIndex, nSamplesToProcess, willBecomeFull,
                   readPlan, currParams, arVars, seqNo, ingested, warnings,
                   outState, fnVars,
                   dataToProcess, extVars>>

\* a phase branch taken as soon as the fifo is full
PhaseIsDueWhenFull(c) == chanState[c] # NOT_FULL

\* line 302: does this block get a phase?
PhaseIsDue(c) == chanState[c] = FULL_AR

\* lines 302 and 346-350: choose the branch; without a model, output zeros
ProcessOutput ==
    /\ rtPc = "output"
    /\ outState' = chanState[rtChan]
    /\ IF PhaseIsDue(rtChan)
       THEN /\ rtPc' = "params"
            /\ rtIdx' = 0
            /\ currParams' = <<>>
            /\ UNCHANGED buffer
       ELSE /\ rtPc' = "last"
            /\ buffer' = [i \in 1..nSamples |->
                            IF startIndex < i /\ i <= startIndex + nSamplesToProcess
                            THEN 0 ELSE buffer[i]]
            /\ UNCHANGED <<rtIdx, currParams>>
    /\ UNCHANGED <<cfgVars, chanVars, acquiring, rtChan, nSamples, startIndex,
                   nSamplesToProcess, willBecomeFull, readPlan, arVars, seqNo,
                   ingested, wasPending, warnings, fnVars,
                   dataToProcess, extVars>>

\* lines 311-314: one coefficient into currParams
ProcessCopyParam ==
    /\ rtPc = "params"
    /\ rtIdx < AR_ORDER
    /\ currParams' = ArraySet(currParams, rtIdx, ArrayGet(arParams[rtChan], rtIdx))
    /\ rtIdx' = rtIdx + 1
    /\ UNCHANGED <<cfgVars, chanVars, acquiring, rtPc, rtChan, buffer, nSamples,
                   startIndex, nSamplesToProcess, willBecomeFull, readPlan,
                   arVars, seqNo, histVars, fnVars,
                   dataToProcess, extVars>>

\* line 48: what the reverse iterator reads at index i; before the start
\* of the array that is memory that holds no sample
WindowAt(work, i) == IF i \in DOMAIN work THEN work[i] ELSE Uninit

\* lines 48-49: the indices the inner product reads for the value at start
PredictReads(start) == {start - j : j \in 1..AR_ORDER}

\* arPredict, lines 42-51: writeNum values from index start on, each minus
\* the inner product of params with the values before it, latest first
RECURSIVE ArPredict(_, _, _, _)
ArPredict(work, start, writeNum, params) ==
    IF writeNum <= 0 THEN work
    ELSE LET sum[j \in 0..AR_ORDER] ==
                 IF j = 0 THEN 0
                 ELSE sum[j - 1] + params[j] * WindowAt(work, start - j)
         IN  ArPredict([work EXCEPT ![start] = -sum[AR_ORDER]],
                       start + 1, writeNum - 1, params)

\* line 309: where the predicted samples start in dataToProcess
PredictStart == historyLength

\* a window whose last real sample is predicted too
WorkBufferOverlapping(sdb, params) ==
    LET copied == [i \in 0..(processLength - 1) |->
                     IF i < historyLength /\ i < Len(sdb) THEN sdb[i + 1] ELSE Uninit]
    IN  ArPredict(copied, PredictStart - 1, numFuture + 1, params)

\* lines 305-317: the window handed to the transform.  copyFrom reads
\* historyLength values at the snapshot's data pointer; beyond the array's
\* size that is memory that holds no sample
WorkBuffer(sdb, params) ==
    LET copied == [i \in 0..(processLength - 1) |->
                     IF i < historyLength /\ i < Len(sdb) THEN sdb[i + 1] ELSE Uninit]
    IN  ArPredict(copied, PredictStart, numFuture, params)

\* line 333: the offset in dataOut of the phase of the k-th processed sample
PhaseOffset(k) == historyLength - nSamplesToProcess + k

\* lines 317-344: predict, transform, phase of the new samples, unwrap, smooth
ProcessPhase(raw) ==
    /\ rtPc = "params"
    /\ rtIdx >= AR_ORDER
    /\ LET c == rtChan
           wp == [i \in 1..nSamples |->
                    IF i <= startIndex THEN buffer[i] ELSE raw[i - startIndex]]
           unwrapped == UnwrapBuffer(wp, nSamples, lastSample[c], glitchLimit)
       IN  buffer' = SmoothBuffer(unwrapped, nSamples, lastSample[c], glitchLimit)
    /\ dataToProcess' = WorkBuffer(sharedDataBuffer[rtChan], currParams)
    /\ rtPc' = "last"
    /\ UNCHANGED <<cfgVars, chanVars, acquiring, rtChan, rtIdx, nSamples, startIndex,
                   nSamplesToProcess, willBecomeFull, readPlan, currParams,
                   arVars, seqNo, histVars, fnVars, extVars>>

\* the first sample of a block
FirstOfBlock(buf, n) == buf[1]

\* line 353: buffer.getSample(chan, nSamples - 1)
LastOfBlock(buf, n) == buf[n]

\* line 353: remember the last output sample; the locals of this channel's
\* iteration and the host's block buffer go out of scope
ProcessLastSample ==
    /\ rtPc = "last"
    /\ lastSample' = [lastSample EXCEPT ![rtChan] = LastOfBlock(buffer, nSamples)]
    /\ NextChannel
    /\ buffer' = <<>> /\ rtIdx' = 0 /\ nSamples' = 0 /\ startIndex' = 0
    /\ nSamplesToProcess' = 0 /\ willBecomeFull' = FALSE /\ currParams' = <<>>
    /\ dataToProcess' = <<>>
    /\ readPlan' = [start1 |-> 0, size1 |-> 0, start2 |-> 0, size2 |-> 0]
    /\ outState' = "none"
    /\ firstFull' = FALSE
    /\ UNCHANGED <<cfgVars, fifoManager, historyFifo, chanState, sharedDataBuffer,
                   sdbLock, arParams, haveSentWarning, acquiring, arVars, seqNo,
                   ingested, wasPending, warnings, fnVars, selVars, cdVars, edVars, snapped, tmrVars>>

(***************************************************************************)
(* run() (PhaseCalculator.cpp 532-604), the AR-fitting thread.             *)
(***************************************************************************)
ThreadRunning == arPc # "idle"

\* a thread that returns from run(): its locals are gone
ThreadExit ==
    /\ arPc' = "idle" /\ arChan' = 1 /\ arIdx' = 0 /\ data' = <<>>
    /\ paramsTemp' = Zeros(AR_ORDER) /\ myParamsFreed' = FALSE

\* a loop that does not test the exit flag at its top
ARTopIgnoresExit ==
    /\ arPc = "top"
    /\ arPc' = "chk" /\ arChan' = 1
    /\ UNCHANGED <<cfgVars, chanVars, acquiring, rtVars, shouldExit, arIdx, data,
                   paramsTemp, myParamsFreed, seqNo, histVars, fnVars, extVars>>

\* lines 543-548: top of the loop
ARTop ==
    /\ arPc = "top"
    /\ IF shouldExit
       THEN ThreadExit
       ELSE /\ arPc' = "chk" /\ arChan' = 1
            /\ UNCHANGED <<arIdx, data, paramsTemp, myParamsFreed>>
    /\ UNCHANGED <<cfgVars, chanVars, acquiring, rtVars, shouldExit, seqNo,
                   histVars, fnVars, extVars>>

\* a sweep that looks at the first channel only
SweepsFirstChannelOnly(c) == chanState[c] # NOT_FULL /\ c = 1

\* line 550: does this channel take part in the sweep?
SweepsChannel(c) == chanState[c] # NOT_FULL

\* lines 548-551: next channel of the sweep
ARCheck ==
    /\ arPc = "chk"
    /\ IF arChan > nInputs
       THEN arPc' = "wait" /\ arChan' = 1
       ELSE IF SweepsChannel(arChan)
       THEN arPc' = "lock" /\ UNCHANGED arChan
       ELSE arChan' = arChan + 1 /\ UNCHANGED arPc
    /\ UNCHANGED <<cfgVars, chanVars, acquiring, rtVars, shouldExit, arIdx, data,
                   paramsTemp, myParamsFreed, seqNo, histVars, fnVars, extVars>>

\* line 555: enter the critical section
ARLock ==
    /\ arPc = "lock"
    /\ sdbLock[arChan] = "free"
    /\ sdbLock' = [sdbLock EXCEPT ![arChan] = "ar"]
    /\ arPc' = "copy"
    /\ arIdx' = 0
    /\ UNCHANGED <<cfgVars, fifoManager, historyFifo, chanState, sharedDataBuffer,
                   lastSample, arParams, haveSentWarning, acquiring, rtVars,
                   shouldExit, arChan, data, paramsTemp, myParamsFreed, seqNo,
                   histVars, fnVars, extVars>>

\* lines 557-558: one element of the snapshot into the local buffer
ARCopy ==
    /\ arPc = "copy"
    /\ arIdx < historyLength
    /\ data' = ArraySet(data, arIdx, ArrayGet(sharedDataBuffer[arChan], arIdx))
    /\ arIdx' = arIdx + 1
    /\ UNCHANGED <<cfgVars, chanVars, acquiring, rtVars, arPc, shouldExit, arChan,
                   paramsTemp, myParamsFreed, seqNo, histVars, fnVars, extVars>>

\* a thread that goes on to the fit with the lock still held
ARKeepLock ==
    /\ arPc = "copy"
    /\ arIdx >= historyLength
    /\ arPc' = "fit"
    /\ UNCHANGED <<cfgVars, chanVars, acquiring, rtVars, shouldExit, arChan, arIdx,
                   data, paramsTemp, myParamsFreed, seqNo, histVars, fnVars, extVars>>

\* line 559: leave the critical section
ARUnlock ==
    /\ arPc = "copy"
    /\ arIdx >= historyLength
    /\ sdbLock' = [sdbLock EXCEPT ![arChan] = IF @ = "ar" THEN "free" ELSE @]
    /\ arPc' = "fit"
    /\ UNCHANGED <<cfgVars, fifoManager, historyFifo, chanState, sharedDataBuffer,
                   lastSample, arParams, haveSentWarning, acquiring, rtVars,
                   shouldExit, arChan, arIdx, data, paramsTemp, myParamsFreed,
                   seqNo, histVars, fnVars, extVars>>

\* lines 562-576: the Burg fit of the local buffer
ARFit(result) ==
    /\ arPc = "fit"
    /\ paramsTemp' = result
    /\ arPc' = "write"
    /\ arIdx' = 0
    /\ myParamsFreed' = FALSE
    /\ UNCHANGED <<cfgVars, chanVars, acquiring, rtVars, shouldExit, arChan, data,
                   seqNo, histVars, fnVars, extVars>>

\* lines 577-578: one coefficient into arParams[chan].  After initialize() has
\* freed the array myParams points to, the write may or may not land in the
\* channel's new array
ARWrite ==
    /\ arPc = "write"
    /\ arIdx < AR_ORDER
    /\ \E lands \in (IF myParamsFreed THEN BOOLEAN ELSE {TRUE}) :
         arParams' = IF lands
                     THEN [arParams EXCEPT
                             ![arChan] = ArraySet(@, arIdx, paramsTemp[arIdx + 1])]
                     ELSE arParams
    /\ arIdx' = arIdx + 1
    /\ UNCHANGED <<cfgVars, fifoManager, historyFifo, chanState, sharedDataBuffer,
                   sdbLock, lastSample, haveSentWarning, acquiring, rtVars, arPc,
                   shouldExit, arChan, data, paramsTemp, myParamsFreed, seqNo,
                   histVars, fnVars, extVars>>

\* line 580: the channel has a model
ARSetState ==
    /\ arPc = "write"
    /\ arIdx >= AR_ORDER
    /\ chanState' = [chanState EXCEPT ![arChan] = FULL_AR]
    /\ arPc' = "chk"
    /\ arChan' = arChan + 1
    /\ arIdx' = 0
    /\ myParamsFreed' = FALSE
    /\ UNCHANGED <<cfgVars, fifoManager, historyFifo, sharedDataBuffer, sdbLock,
                   lastSample, arParams, haveSentWarning, acquiring, rtVars,
                   shouldExit, data, paramsTemp, seqNo, histVars, fnVars, extVars>>

\* lines 591-602: the timer has rung, a new sweep starts
ARWaitTimer ==
    /\ arPc = "wait"
    /\ arPc' = "top"
    /\ UNCHANGED <<cfgVars, chanVars, acquiring, rtVars, shouldExit, arChan, arIdx,
                   data, paramsTemp, myParamsFreed, seqNo, histVars, fnVars, extVars>>

\* lines 593-594: the wait loop polls the exit flag
ARWaitExit ==
    /\ arPc = "wait"
    /\ shouldExit
    /\ ThreadExit
    /\ UNCHANGED <<cfgVars, chanVars, acquiring, rtVars, shouldExit, seqNo,
                   histVars, fnVars, extVars>>

(***************************************************************************)
(* The wait between two sweeps with its timer, lines 583-602 and 719-737.  *)
(* Time passes in steps of one millisecond; the timer rings every          *)
(* currInterval milliseconds after it was started.                         *)
(***************************************************************************)
tmrRest == <<cfgVars, chanVars, acquiring, rtVars, seqNo, histVars, fnVars,
             selVars, cdVars, blkVars>>

\* lines 540-541, 586-588 and 598-600: currInterval = calcInterval and the
\* timer (re)started with it
StartTimer(interval) == currInterval' = interval /\ elapsed' = 0

\* a millisecond passes; timerCallback(), lines 726-729, when the interval
\* is over.  The timer is a local of run()
Tick ==
    /\ ThreadRunning
    /\ IF elapsed + 1 >= currInterval
       THEN hasRung' = TRUE /\ elapsed' = 0
       ELSE elapsed' = elapsed + 1 /\ UNCHANGED hasRung
    /\ UNCHANGED <<currInterval, waitPc, temp, arVars, edVars, tmrRest>>

\* lines 585-589 and 596-601: a changed calcInterval restarts the timer
ObserveInterval ==
    IF calcInterval # currInterval
    THEN StartTimer(calcInterval)
    ELSE UNCHANGED <<currInterval, elapsed>>

\* lines 584-589: after the sweep
ARUpdateInterval ==
    /\ arPc = "wait" /\ waitPc = "update"
    /\ ObserveInterval
    /\ waitPc' = "check"
    /\ UNCHANGED <<hasRung, temp, arVars, edVars, tmrRest>>

\* check(), line 733: bool temp = hasRung
ARCheckRead ==
    /\ arPc = "wait" /\ waitPc = "check"
    /\ temp' = hasRung
    /\ waitPc' = "clear"
    /\ UNCHANGED <<hasRung, currInterval, elapsed, arVars, edVars, tmrRest>>

\* check(), lines 734-735, and the test of line 591: hasRung = false, and
\* the wait is over if check() had read true
ARCheckClear ==
    /\ arPc = "wait" /\ waitPc = "clear"
    /\ hasRung' = FALSE
    /\ IF temp
       THEN arPc' = "top" /\ waitPc' = "update"
       ELSE waitPc' = "body" /\ UNCHANGED arPc
    /\ UNCHANGED <<currInterval, elapsed, temp, shouldExit, arChan, arIdx, data,
                   paramsTemp, myParamsFreed, edVars, tmrRest>>

\* lines 593-601: the body of the wait loop
ARWaitBody ==
    /\ arPc = "wait" /\ waitPc = "body"
    /\ IF shouldExit
       THEN /\ ThreadExit
            /\ waitPc' = "update"
            /\ UNCHANGED <<currInterval, elapsed>>
       ELSE /\ ObserveInterval
            /\ waitPc' = "check"
            /\ UNCHANGED <<arPc, arChan, arIdx, data, paramsTemp, myParamsFreed>>
    /\ UNCHANGED <<hasRung, temp, shouldExit, edVars, tmrRest>>

\* setParameter(pRecalcInterval), lines 176-178: at any time
SetRecalcInterval(v) ==
    /\ calcInterval' = v
    /\ UNCHANGED <<lowCut, highCut, lastProcessLength, sliderValue, sliderMax,
                   sliderPending, labelText, edInput, edCalls, edChanged,
                   arVars, tmrVars, tmrRest>>

(***************************************************************************)
(* The host: enable(), disable() and setParameter().  The host calls       *)
(* process() only between enable() and disable(), never during either,     *)
(* and changes the window only while acquisition is stopped.               *)
(***************************************************************************)
\* enable(), lines 452-459, and the start of run(), lines 534-541.
\* juce::Thread::startThread clears the exit flag and launches run() unless
\* the thread is still running
Enable ==
    /\ ~acquiring
    /\ acquiring' = TRUE
    /\ shouldExit' = FALSE
    /\ IF ThreadRunning
       THEN UNCHANGED <<arPc, arChan, arIdx, data, paramsTemp, myParamsFreed,
                        tmrVars>>
       ELSE /\ arPc' = "top" /\ data' = Zeros(historyLength)
            /\ StartTimer(calcInterval)
            /\ hasRung' = FALSE /\ waitPc' = "update" /\ temp' = FALSE
            /\ UNCHANGED <<arChan, arIdx, paramsTemp, myParamsFreed>>
    /\ UNCHANGED <<cfgVars, chanVars, rtVars, seqNo, histVars, fnVars, selVars,
                   cdVars, edVars, blkVars>>

\* line 464: what disable() does about the thread
StopThread == shouldExit' = TRUE /\ UNCHANGED <<arPc, arChan, arIdx, data,
                                                paramsTemp, myParamsFreed>>

\* disable(), lines 462-482
Disable ==
    /\ acquiring
    /\ rtPc = "idle"
    /\ acquiring' = FALSE
    /\ StopThread
    /\ chanState' = [c \in DOMAIN chanState |-> NOT_FULL]
    /\ fifoManager' = [c \in DOMAIN fifoManager |-> ResetFifo(fifoManager[c])]
    /\ lastSample' = [c \in DOMAIN lastSample |-> 0]
    /\ haveSentWarning' = FALSE
    /\ ingested' = [c \in DOMAIN ingested |-> 0]
    /\ wasPending' = [c \in DOMAIN wasPending |-> FALSE]
    /\ warnings' = 0
    /\ snapped' = [c \in DOMAIN snapped |-> FALSE]
    /\ UNCHANGED <<cfgVars, historyFifo, sharedDataBuffer, sdbLock, arParams,
                   rtVars, seqNo, outState, fnVars, selVars, cdVars, edVars, firstFull, tmrVars>>

\* setParameter(pEnabledState), lines 169-174, on the channel the host made
\* current
SetEnabledState(c, on) ==
    /\ c \in Chans
    /\ shouldProcessChannel[c] # on
    /\ shouldProcessChannel' = [shouldProcessChannel EXCEPT ![c] = on]
    /\ UNCHANGED <<cfgVars, chanVars, acquiring, rtVars, arVars, seqNo, histVars,
                   fnVars, processADC, chanType, cdVars, edVars, blkVars, tmrVars>>

\* setParameter(pAdcEnabled), lines 184-186
SetAdcEnabled(on) ==
    /\ processADC # on
    /\ processADC' = on
    /\ UNCHANGED <<cfgVars, chanVars, acquiring, rtVars, arVars, seqNo, histVars,
                   fnVars, shouldProcessChannel, chanType, cdVars, edVars,
                   blkVars, tmrVars>>

\* setParameter(pQueueSize), lines 157-162, with initialize(), lines 633-703:
\* no check of the value.  A thread still inside run() keeps a pointer to the
\* freed coefficient array
ParamQueueSize(w) ==
    /\ ~acquiring
    /\ processLength' = w
    /\ historyLength' = w - numFuture
    /\ fifoManager' = [c \in Chans |-> NewFifo(w - numFuture + 1)]
    /\ historyFifo' = [c \in Chans |-> FreshHistory(w - numFuture)]
    /\ chanState' = [c \in Chans |-> NOT_FULL]
    /\ lastSample' = [c \in Chans |-> 0]
    /\ sharedDataBuffer' = [c \in Chans |-> <<>>]
    /\ sdbLock' = [c \in Chans |-> "free"]
    /\ arParams' = [c \in Chans |-> Zeros(AR_ORDER)]
    /\ myParamsFreed' = (arPc = "write")
    /\ ingested' = [c \in Chans |-> 0]
    /\ wasPending' = [c \in Chans |-> FALSE]
    /\ snapped' = [c \in Chans |-> FALSE]
    /\ UNCHANGED <<nInputs, numFuture, glitchLimit, haveSentWarning, acquiring,
                   rtVars, arPc, shouldExit, arChan, arIdx, data, paramsTemp,
                   seqNo, warnings, outState, fnVars, selVars, cdVars, edVars, firstFull, tmrVars>>

\* setParameter(pNumFuture), lines 164-167, with setNumFuture(), lines 705-717:
\* no check of the value
ParamNumFuture(p) ==
    /\ ~acquiring
    /\ numFuture' = p
    /\ historyLength' = processLength - p
    /\ historyFifo' = [c \in Chans |-> FreshHistory(processLength - p)]
    /\ fifoManager' = [c \in Chans |-> NewFifo(processLength - p + 1)]
    /\ ingested' = [c \in Chans |-> 0]
    /\ snapped' = [c \in Chans |-> FALSE]
    /\ UNCHANGED <<nInputs, processLength, glitchLimit, chanState, sharedDataBuffer,
                   sdbLock, lastSample, arParams, haveSentWarning, acquiring,
                   rtVars, arVars, seqNo, wasPending, warnings, outState, fnVars, selVars, cdVars, edVars, firstFull, tmrVars>>

\* the same calls as the editor makes them: numFuture within
\* 0..processLength - AR_ORDER (PhaseCalculator.h line 178)
SetQueueSize(w) == w - numFuture >= AR_ORDER /\ ParamQueueSize(w)

SetNumFuture(p) == processLength - p >= AR_ORDER /\ ParamNumFuture(p)

\* setParameter(pGlitchLimit), lines 180-182: live
SetGlitchLimit(g) ==
    /\ glitchLimit' = g
    /\ UNCHANGED <<nInputs, processLength, numFuture, historyLength, chanVars,
                   acquiring, rtVars, arVars, seqNo, histVars, fnVars, extVars>>

(***************************************************************************)
(* CrossingDetector (part_003).  Samples are -1 (below the threshold) and  *)
(* 1 (above it); fracPrev and fracNext keep their start value 1.0.         *)
(***************************************************************************)
pcVars == <<cfgVars, chanVars, acquiring, rtVars, arVars, seqNo, histVars, fnVars,
            selVars, edVars, blkVars, tmrVars>>

threshold == 0

\* line 268: the previous and the current block as one array, x from
\* -lastBuffer.size()
Rp(rpCurr, x) == IF x >= 0 THEN rpCurr[x + 1] ELSE lastBuffer[Len(lastBuffer) + x + 1]

\* shouldTrigger, lines 256-287, for dir = dPos or dNeg
ShouldTriggerOneWay(rpCurr, n, t0, dir, nPrev, nNext) ==
    LET minInd == t0 - nPrev
        maxInd == t0 + nNext - 1
        prevHits == Cardinality({i \in minInd..(t0 - 1) :
                        IF dir = dPos THEN Rp(rpCurr, i) < threshold
                                      ELSE Rp(rpCurr, i) > threshold})
        nextHits == Cardinality({i \in t0..maxInd :
                        IF dir = dPos THEN Rp(rpCurr, i) > threshold
                                      ELSE Rp(rpCurr, i) < threshold})
    IN  IF minInd < -Len(lastBuffer) \/ maxInd >= n
        THEN FALSE
        ELSE prevHits >= nPrev /\ nextHits >= nNext

\* shouldTrigger, lines 247-254
ShouldTrigger(rpCurr, n, t0, dir, nPrev, nNext) ==
    IF dir = dNone THEN FALSE
    ELSE IF dir = dPosOrNeg
    THEN \/ ShouldTriggerOneWay(rpCurr, n, t0, dPos, nPrev, nNext)
         \/ ShouldTriggerOneWay(rpCurr, n, t0, dNeg, nPrev, nNext)
    ELSE ShouldTriggerOneWay(rpCurr, n, t0, dir, nPrev, nNext)

\* line 129: the channel of the OFF event
ShutoffChannel(shutoff) == IF shutoff # -1 THEN shutoff ELSE eventChan

\* lines 72-136: the loop of process() from index i on.  st holds the fields
\* the loop writes, the events it added (an OFF event with the channel of the
\* latest ON event before it as "of"), and the time and the channel of the
\* last ON event
RECURSIVE DetectFrom(_, _, _, _)
DetectFrom(i, n, rp, st) ==
    IF i >= n THEN st
    ELSE IF /\ i >= st.sampsToReenable
            /\ i <= n - numNext
            /\ ShouldTrigger(rp, n, i, direction, numPrev, numNext)
    THEN LET eventTime == Max(i, 0)
         IN  DetectFrom(i + 1, n, rp,
                 [st EXCEPT !.events = Append(@, [on |-> TRUE, t |-> eventTime,
                                                   chan |-> eventChan,
                                                   of |-> eventChan]),
                            !.onChan = eventChan,
                            !.sampsToShutoff = eventTime + eventDuration,
                            !.sampsToReenable = eventTime + timeout,
                            !.gaps = @ \cup {Min(eventTime - st.lastOn, CdFar)},
                            !.lastOn = eventTime])
    ELSE IF i >= 0 /\ i = st.sampsToShutoff
    THEN DetectFrom(i + 1, n, rp,
             [st EXCEPT !.events = Append(@, [on |-> FALSE, t |-> i,
                                               chan |-> ShutoffChannel(st.shutoffChan),
                                               of |-> st.onChan]),
                        !.shutoffChan = -1])
    ELSE DetectFrom(i + 1, n, rp, st)

\* process(), lines 46-152, on a block rp of the input channel
CdProcess(rp) ==
    LET n == Len(rp)
        st == DetectFrom(-numNext + 1, n, rp,
                  [sampsToShutoff |-> sampsToShutoff,
                   sampsToReenable |-> sampsToReenable,
                   shutoffChan |-> shutoffChan,
                   events |-> <<>>, gaps |-> {}, lastOn |-> cdLastOn,
                   onChan |-> cdOnChan])
        offs == {st.events[k].t : k \in {j \in DOMAIN st.events : ~st.events[j].on}}
        ons == {st.events[k].t : k \in {j \in DOMAIN st.events : st.events[j].on}}
        owed == cdOwed \cup {t + eventDuration : t \in ons}
    IN  /\ sampsToShutoff' = IF st.sampsToShutoff >= n
                             THEN st.sampsToShutoff - n ELSE -1
        /\ sampsToReenable' = IF st.sampsToReenable >= -numNext
                              THEN st.sampsToReenable - n ELSE st.sampsToReenable
        /\ shutoffChan' = st.shutoffChan
        /\ lastBuffer' = rp
        /\ cdEvents' = st.events
        /\ cdOnChan' = st.onChan
        /\ cdGaps' = st.gaps
        /\ cdLastOn' = Max(st.lastOn - n, -CdFar)
        /\ cdMissed' = {t \in owed : t < n /\ t \notin offs}
        /\ cdOwed' = {t - n : t \in {u \in owed : u >= n}}
        /\ UNCHANGED <<pcVars, direction, eventChan, eventDuration, timeout,
                       numPrev, numNext>>

\* setParameter(pEventChan), lines 172-175
CdSetEventChan(c) ==
    /\ c # eventChan
    /\ shutoffChan' = eventChan
    /\ eventChan' = c
    /\ UNCHANGED <<pcVars, direction, eventDuration, timeout, numPrev, numNext,
                   sampsToShutoff, sampsToReenable, lastBuffer,
                   cdEvents, cdLastOn, cdGaps, cdOwed, cdMissed, cdOnChan>>

\* setParameter(pEventDur), lines 177-179
CdSetEventDur(d) ==
    /\ d # eventDuration
    /\ eventDuration' = d
    /\ UNCHANGED <<pcVars, direction, eventChan, timeout, numPrev, numNext,
                   sampsToShutoff, sampsToReenable, shutoffChan, lastBuffer,
                   cdEvents, cdLastOn, cdGaps, cdOwed, cdMissed, cdOnChan>>

\* setParameter(pNumPrev), lines 185-188
CdSetNumPrev(v) ==
    /\ numPrev' = v
    /\ sampsToReenable' = v
    /\ <<numPrev, sampsToReenable>>' # <<numPrev, sampsToReenable>>
    /\ UNCHANGED <<pcVars, direction, eventChan, eventDuration, timeout, numNext,
                   sampsToShutoff, shutoffChan, lastBuffer,
                   cdEvents, cdLastOn, cdGaps, cdOwed, cdMissed, cdOnChan>>

\* setParameter(pNumNext), lines 194-196
CdSetNumNext(v) ==
    /\ v # numNext
    /\ numNext' = v
    /\ UNCHANGED <<pcVars, direction, eventChan, eventDuration, timeout, numPrev,
                   sampsToShutoff, sampsToReenable, shutoffChan, lastBuffer,
                   cdEvents, cdLastOn, cdGaps, cdOwed, cdMissed, cdOnChan>>

\* process() up to the choice of the output branch, inputs from the given sets
Ingestion(Lens, Mod) ==
    \/ ProcessSkip
    \/ \E n \in Lens : ProcessIngest(n, Mod)
    \/ ProcessSnapshotCheck
    \/ ProcessLock
    \/ ProcessSnapshotWrite
    \/ ProcessUnlock
    \/ ProcessPromote
    \/ ProcessOutput
    \/ ProcessLastSample

\* the phase branch of process()
PhaseOut(Raws) ==
    \/ ProcessCopyParam
    \/ \E raw \in [1..nSamplesToProcess -> Raws] : ProcessPhase(raw)

RealTime(Lens, Mod, Raws) == Ingestion(Lens, Mod) \/ PhaseOut(Raws)

\* run() while no exit is requested
Sweep(Fits) ==
    \/ ARTop
    \/ ARCheck
    \/ ARLock
    \/ ARCopy
    \/ ARUnlock
    \/ \E result \in Fits : ARFit(result)
    \/ ARWrite
    \/ ARSetState
    \/ ARWaitTimer

\* run()
Fitting(Fits) == Sweep(Fits) \/ ARWaitExit

Lifecycle == Enable \/ Disable

Reconfigure(Wins, Futs) ==
    \/ \E w \in Wins : SetQueueSize(w)
    \/ \E p \in Futs : SetNumFuture(p)

Tune(Limits) == \E g \in Limits : SetGlitchLimit(g)

OneFit == {[i \in 1..AR_ORDER |-> 1]}
OnePhase == {Deg(170)}

(***************************************************************************)
(* Spec: one channel with the window fixed (historyLength = AR_ORDER),     *)
(* every interleaving of process(), run(), enable() and disable(), the     *)
(* glitch limit switched live between off and its maximum.                 *)
(***************************************************************************)
Next ==
    \/ RealTime(1..MaxBlock, 1, RawPhases)
    \/ Fitting(FitResults)
    \/ Lifecycle
    \/ Tune({0, MaxGlitch})

Spec == Init /\ [][Next]_vars

TypeOK ==
    /\ chanState \in [Chans -> ChannelState]
    /\ \A c \in Chans : GetNumReady(fifoManager[c]) \in 0..historyLength
    /\ historyLength = processLength - numFuture

(***************************************************************************)
(* SpecRing: the real-time path alone, with tagged samples, every block    *)
(* length and every reset; the fitting thread is never scheduled.          *)
(***************************************************************************)
NextRing ==
    \/ Ingestion(1..MaxBlock, SampleMod)
    \/ Lifecycle
    \/ Reconfigure(WindowLens, {1})

SpecRing == Init /\ [][NextRing]_vars

(***************************************************************************)
(* SpecRun: tagged samples and both threads, with disable() and enable().  *)
(***************************************************************************)
RunMod == AR_ORDER + 1

NextRun ==
    \/ RealTime({1, AR_ORDER}, RunMod, OnePhase)
    \/ Fitting(OneFit)
    \/ Lifecycle

SpecRun == Init /\ [][NextRun]_vars

(***************************************************************************)
(* SpecReconfig: both threads and the stopped-only setters.                *)
(***************************************************************************)
NextReconfig ==
    \/ RealTime({1, MaxBlock}, 1, OnePhase)
    \/ Fitting(OneFit)
    \/ Lifecycle
    \/ Reconfigure(WindowLens, 0..1)

SpecReconfig == Init /\ [][NextReconfig]_vars

(***************************************************************************)
(* SpecWarn: two channels on the real-time path, each with its own block   *)
(* length, with disable() and enable().                                    *)
(***************************************************************************)
InitWarn == InitEngine(2, AR_ORDER + 1, 1) /\ FnIdle

NextWarn == Ingestion(1..MaxBlock, 1) \/ Lifecycle

SpecWarn == InitWarn /\ [][NextWarn]_vars

(***************************************************************************)
(* SpecUnwrap: unwrapBuffer followed by smoothBuffer, as process() calls   *)
(* them (lines 343-344), on every block of raw phases up to MaxBlock       *)
(* samples, every last output sample and every glitch limit.               *)
(***************************************************************************)
FnPhases == {Deg(-170), Deg(-10), Deg(10), Deg(170)}
\* lastSample is 0 after a reset, else a phase, possibly unwrapped by a turn
FnLasts == FnPhases \cup {0, Deg(-190), Deg(190)}

InitUnwrap ==
    /\ InitEngine(1, AR_ORDER + 1, 1)
    /\ fnPc = "raw"
    /\ fnLast \in FnLasts
    /\ fnLimit \in GlitchLimits
    /\ fnRaw \in UNION {[1..n -> FnPhases] : n \in 1..MaxBlock}
    /\ fnUnwrapped = <<>>
    /\ fnSmoothed = <<>>
    /\ HilbertIdle
    /\ ContainersIdle

\* line 343
FnUnwrap ==
    /\ fnPc = "raw"
    /\ fnUnwrapped' = UnwrapBuffer(fnRaw, Len(fnRaw), fnLast, fnLimit)
    /\ fnPc' = "unwrapped"
    /\ UNCHANGED <<cfgVars, chanVars, acquiring, rtVars, arVars, seqNo, histVars,
                   fnLast, fnLimit, fnRaw, fnSmoothed, hbVars, perChan, extVars>>

\* line 344
FnSmooth ==
    /\ fnPc = "unwrapped"
    /\ fnSmoothed' = SmoothBuffer(fnUnwrapped, Len(fnRaw), fnLast, fnLimit)
    /\ fnPc' = "smoothed"
    /\ UNCHANGED <<cfgVars, chanVars, acquiring, rtVars, arVars, seqNo, histVars,
                   fnLast, fnLimit, fnRaw, fnUnwrapped, hbVars, perChan, extVars>>

NextUnwrap == FnUnwrap \/ FnSmooth

SpecUnwrap == InitUnwrap /\ [][NextUnwrap]_vars

(***************************************************************************)
(* Properties.                                                             *)
(***************************************************************************)

\* C1 (Spec): a channel is FULL_AR only if, since the most recent reset, it
\* was first FULL_NO_AR, and it has left NOT_FULL only if at least
\* historyLength samples were ingested into its fifo since that reset
C1_ReadyOnlyAfterPending ==
    \A c \in Chans :
        /\ chanState[c] = FULL_AR => wasPending[c]
        /\ chanState[c] # NOT_FULL => ingested[c] >= historyLength

\* C2 (Spec): the phase branch of process() is entered only with the state
\* FULL_AR, and when the state at line 302 is NOT_FULL or FULL_NO_AR every
\* sample of the block leaves process() as 0
C2_ZeroUnlessModelReady ==
    /\ rtPc = "params" => outState = FULL_AR
    /\ (rtPc = "last" /\ outState \in {NOT_FULL, FULL_NO_AR})
          => \A i \in 1..nSamples : buffer[i] = 0

C2_Witness ==
    /\ rtPc = "last" /\ outState = FULL_NO_AR
    /\ nSamples = MaxBlock /\ startIndex > 0
    /\ \A i \in 1..nSamples : buffer[i] = 0

\* the tag of the i-th most recent-window sample of channel c (i from 0,
\* oldest first) when the window holds the last h samples
RecentTag(c, h, i, mod) == (seqNo[c] + mod - h + i) % mod

\* C3 (SpecRing): once historyLength samples have been ingested since the
\* last reset, the snapshot written by a block holds the most recent
\* historyLength filtered samples, oldest first, and after the snapshot the
\* fifo still holds exactly those samples between its unchanged read and
\* write positions
C3_SnapshotIsRecentHistory ==
    (rtPc = "promote" /\ ingested[rtChan] >= historyLength) =>
        LET c == rtChan
            h == historyLength
            af == fifoManager[c]
        IN  /\ Len(sharedDataBuffer[c]) >= h
            /\ \A i \in 0..(h - 1) :
                   ArrayGet(sharedDataBuffer[c], i) = RecentTag(c, h, i, SampleMod)
            /\ GetNumReady(af) = h
            /\ \A i \in 0..(h - 1) :
                   historyFifo[c][(af.vs + i) % af.size] = RecentTag(c, h, i, SampleMod)

C3_Witness ==
    /\ rtPc = "promote" /\ ingested[rtChan] >= historyLength
    /\ readPlan.size2 > 0
    /\ chanState[rtChan] = FULL_NO_AR
    /\ \A i \in 0..(historyLength - 1) :
           ArrayGet(sharedDataBuffer[rtChan], i)
               = RecentTag(rtChan, historyLength, i, SampleMod)

\* C4 (Spec): the coefficient vector process() has copied when it computes
\* the phase is the complete result of one fit (or the initial zeros),
\* never a mix of two fits
C4_NoTornCoefficients ==
    (rtPc = "params" /\ rtIdx >= AR_ORDER)
        => currParams \in FitResults \cup {Zeros(AR_ORDER)}

\* C5 (SpecRun): process() never writes a channel's snapshot while run()
\* copies it, and the buffer run() hands to the Burg fit is one complete
\* snapshot: historyLength consecutive samples of the stream
C5_FitInputIsOneSnapshot ==
    /\ ~(rtPc = "snapWrite" /\ arPc = "copy" /\ rtChan = arChan)
    /\ arPc = "fit" =>
          \A i \in 1..(historyLength - 1) : data[i + 1] = (data[i] + 1) % RunMod

\* C6 (SpecReconfig): no step of initialize() (pQueueSize), setNumFuture()
\* (pNumFuture) or enable() is taken while the fitting thread is inside run()
C6_ThreadExitedBeforeReuse ==
    [][((\E w \in WindowLens : SetQueueSize(w))
          \/ (\E p \in 0..1 : SetNumFuture(p))
          \/ Enable) => ~ThreadRunning]_vars

\* C7 (Spec): from a reset until the next block of samples is processed,
\* every channel is NOT_FULL with an empty fifo and lastSample 0, and the
\* warning flag is clear
C7_ResetUntilNextBlock ==
    (\A c \in Chans : ingested[c] = 0) =>
        /\ \A c \in Chans : /\ chanState[c] = NOT_FULL
                            /\ GetNumReady(fifoManager[c]) = 0
                            /\ lastSample[c] = 0
        /\ ~haveSentWarning

\* the case of C8: the previous block ended at 170, the block starts at -170,
\* the glitch limit is at least 1 and no upward jump of more than a half turn
\* follows within the limit
C8_Case ==
    /\ fnPc = "unwrapped"
    /\ fnLast = Deg(170)
    /\ fnRaw[1] = Deg(-170)
    /\ fnLimit >= 1
    /\ \A j \in 1..Min(fnLimit, Len(fnRaw) - 1) :
           ~(fnRaw[j + 1] - fnRaw[j] > HalfTurn)

\* C8 as stated (SpecUnwrap): in that case unwrapBuffer moves the first
\* value of the block to 190
C8_FirstValueBecomes190 == C8_Case => fnUnwrapped[1] = Deg(190)

\* C8 amended (SpecUnwrap): in that case unwrapBuffer leaves the first value
\* of the block at -170, the jump being a downward one
C8_FirstValueStays == C8_Case => fnUnwrapped[1] = Deg(-170)

C8_Witness ==
    /\ C8_Case
    /\ Len(fnRaw) = MaxBlock
    /\ fnUnwrapped[1] = Deg(-170)

\* C9 (SpecUnwrap): with glitchLimit = 0, unwrapBuffer and then smoothBuffer
\* leave every sample of the block as it was
C9_GlitchLimitZeroIsIdentity ==
    fnLimit = 0 =>
        /\ fnPc \in {"unwrapped", "smoothed"} => fnUnwrapped = fnRaw
        /\ fnPc = "smoothed" => fnSmoothed = fnRaw

C9_Witness ==
    /\ fnPc = "smoothed" /\ fnLimit = 0 /\ fnSmoothed = fnRaw
    /\ Len(fnRaw) = MaxBlock
    /\ fnRaw[1] < fnLast /\ fnRaw[1] - fnLast > -HalfTurn
    /\ fnRaw[2] - fnRaw[1] > HalfTurn

\* a step of process() that has just truncated a block longer than the window
OverloadStep ==
    rtPc # "snapCheck" /\ rtPc' = "snapCheck" /\ nSamples' > historyLength

\* C10 (SpecWarn): between two resets the warning is sent at most once; a
\* step sends it only if it processes a block longer than historyLength and
\* no warning was sent before, and after every such block it has been sent
C10_WarnOncePerReset ==
    /\ [](warnings <= 1)
    /\ [][/\ (warnings' # warnings /\ warnings' # 0)
                => (OverloadStep /\ warnings = 0 /\ warnings' = 1)
          /\ OverloadStep => warnings' >= 1]_vars

C10_Witness ==
    /\ rtPc = "snapCheck" /\ rtChan = 2
    /\ nSamples > historyLength
    /\ chanState[1] = FULL_NO_AR /\ chanState[2] = FULL_NO_AR
    /\ warnings = 1

\* C11 (Spec): a block longer than historyLength leaves process() with its
\* oldest nSamples - historyLength samples 0, with the fifo holding
\* historyLength samples and with the channel no longer NOT_FULL
C11_TruncatedPrefixIsZero ==
    (rtPc = "last" /\ nSamples > historyLength) =>
        /\ startIndex = nSamples - historyLength
        /\ GetNumReady(fifoManager[rtChan]) = historyLength
        /\ chanState[rtChan] # NOT_FULL
        /\ \A i \in 1..startIndex : buffer[i] = 0

\* C12 (SpecReconfig): every step of setParameter(pQueueSize) or
\* setParameter(pNumFuture) ends with historyLength = processLength -
\* numFuture, every fifo empty with capacity historyLength + 1 and every
\* channel NOT_FULL
C12_ReconfiguredIsReset ==
    [][((\E w \in WindowLens : SetQueueSize(w))
          \/ (\E p \in 0..1 : SetNumFuture(p)))
        => /\ historyLength' = processLength' - numFuture'
           /\ \A c \in 1..nInputs :
                 /\ GetNumReady(fifoManager'[c]) = 0
                 /\ fifoManager'[c].size = historyLength' + 1
                 /\ chanState'[c] = NOT_FULL]_vars

(***************************************************************************)
(* SpecSetters: the processor's setParameter() called with any window      *)
(* length and any number of predicted samples, between runs of the         *)
(* acquisition; no samples arrive.                                         *)
(***************************************************************************)
NextSetters ==
    \/ \E w \in 1..MaxWindow : ParamQueueSize(w)
    \/ \E p \in 0..MaxWindow : ParamNumFuture(p)
    \/ Tune(GlitchLimits)
    \/ Lifecycle
    \/ ARTop
    \/ ARCheck
    \/ ARWaitTimer
    \/ ARWaitExit

SpecSetters == Init /\ [][NextSetters]_vars

\* C13 (SpecSetters): whatever values setParameter(pQueueSize) and
\* setParameter(pNumFuture) are called with, 0 <= numFuture <=
\* processLength - AR_ORDER, that is historyLength >= AR_ORDER
C13_SettersKeepHistory ==
    /\ 0 <= numFuture
    /\ numFuture <= processLength - AR_ORDER
    /\ historyLength >= AR_ORDER

(***************************************************************************)
(* SpecPredict: one run of the acquisition with tagged samples and two     *)
(* possible fits, started with no predicted samples (the window is the     *)
(* history) or with one.                                                   *)
(***************************************************************************)
InitPredict ==
    (\E nfut \in 0..1 : InitEngine(1, AR_ORDER + 1 + nfut, nfut)) /\ FnIdle

NextPredict ==
    \/ RealTime({1, AR_ORDER}, RunMod, OnePhase)
    \/ Sweep(FitResults)
    \/ Enable

SpecPredict == InitPredict /\ [][NextPredict]_vars

\* C16 (SpecPredict): with numFuture = 0 the window handed to the transform
\* is the snapshot, sample for sample, and it is the same window whatever
\* coefficient vector process() holds
C16_WindowIgnoresCoefficients ==
    (rtPc = "last" /\ outState = FULL_AR /\ numFuture = 0) =>
        /\ DOMAIN dataToProcess = 0..(historyLength - 1)
        /\ \A i \in 0..(historyLength - 1) :
               dataToProcess[i] = ArrayGet(sharedDataBuffer[rtChan], i)
        /\ \A q \in FitResults \cup {Zeros(AR_ORDER)} :
               WorkBuffer(sharedDataBuffer[rtChan], q) = dataToProcess

C16_Witness ==
    /\ rtPc = "last" /\ outState = FULL_AR /\ numFuture = 0
    /\ currParams \in FitResults
    /\ \E i \in 0..(historyLength - 1) : dataToProcess[i] > 0
    /\ \A q \in FitResults : WorkBuffer(sharedDataBuffer[rtChan], q) = dataToProcess

\* C17 (SpecRun): in a block of a channel whose model is ready, the phase
\* of the k-th processed sample is read at offset historyLength - n + k of
\* the transformed window, an offset below historyLength, and the window
\* holds at that offset the k-th of the n most recent samples of the channel
C17_PhaseFromNewSamples ==
    (rtPc = "last" /\ outState = FULL_AR) =>
        \A k \in 0..(nSamplesToProcess - 1) :
            /\ PhaseOffset(k) \in 0..(historyLength - 1)
            /\ dataToProcess[PhaseOffset(k)]
                   = RecentTag(rtChan, nSamplesToProcess, k, RunMod)

\* the part of C17 about the offsets alone
C17_OffsetsAreHistory ==
    (rtPc = "last" /\ outState = FULL_AR) =>
        \A k \in 0..(nSamplesToProcess - 1) :
            PhaseOffset(k) \in 0..(historyLength - 1)

(***************************************************************************)
(* SpecSelect: two channels of any type, the "+CH" flags and the           *)
(* "+ADC/AUX" switch changed at any time, blocks of tagged samples.        *)
(***************************************************************************)
InitSelect ==
    /\ InitProcessor(2, AR_ORDER + 1, 1)
    /\ FnIdle
    /\ shouldProcessChannel = [c \in 1..2 |-> TRUE]
    /\ processADC = FALSE
    /\ chanType \in [1..2 -> ChannelType]
    /\ InitDetector(dPos, 1, 1, 1, 1)
    /\ InitEditor(AR_ORDER + 1, 1)

Selection ==
    \/ \E c \in 1..2, on \in BOOLEAN : SetEnabledState(c, on)
    \/ \E on \in BOOLEAN : SetAdcEnabled(on)

NextSelect ==
    \/ Ingestion({AR_ORDER}, RunMod)
    \/ \E n \in {0, AR_ORDER} : ProcessBypass(n, RunMod)
    \/ Enable
    \/ Selection

SpecSelect == InitSelect /\ [][NextSelect]_vars

\* C18 (SpecSelect): a step of process() at the start of a channel whose
\* "+CH" flag is off, or that is an ADC/AUX channel while "+ADC/AUX" is off,
\* or whose block is empty, leaves the channel's samples in the buffer as the
\* host delivered them and leaves its ring buffer, snapshot, state and last
\* output sample as they were
C18_UnselectedPassesThrough ==
    [][(/\ AtChannelStart
        /\ <<rtPc, rtChan>>' # <<rtPc, rtChan>>
        /\ \/ ~shouldProcessChannel[rtChan]
           \/ ~processADC /\ chanType[rtChan] \in {ADC_CHANNEL, AUX_CHANNEL}
           \/ Len(buffer') = 0)
       => (/\ \E n \in 0..AR_ORDER : buffer' = InputBlock(rtChan, n, RunMod)
           /\ fifoManager'[rtChan] = fifoManager[rtChan]
           /\ historyFifo'[rtChan] = historyFifo[rtChan]
           /\ sharedDataBuffer'[rtChan] = sharedDataBuffer[rtChan]
           /\ chanState'[rtChan] = chanState[rtChan]
           /\ lastSample'[rtChan] = lastSample[rtChan]
           /\ rtPc' \in {"chan", "idle"})]_vars

C18_Witness ==
    /\ rtPc = "chan" /\ rtChan = 2
    /\ chanType[1] = ADC_CHANNEL /\ ~processADC /\ shouldProcessChannel[1]
    /\ chanState[1] = FULL_NO_AR
    /\ Len(buffer) = AR_ORDER

(***************************************************************************)
(* SpecCross: the detector on blocks of up to MaxCdBlock samples, every    *)
(* start value of the parameters, and live changes of the parameters       *)
(* other than the timeout.                                                 *)
(***************************************************************************)
CdBlocks == UNION {[1..n -> {-1, 1}] : n \in 0..MaxCdBlock}

InitCross ==
    /\ InitProcessor(1, AR_ORDER + 1, 1)
    /\ InitSelection(1)
    /\ InitEditor(AR_ORDER + 1, 1)
    /\ FnIdle
    /\ \E dir \in {dPos, dPosOrNeg}, dur \in 0..MaxDuration, tmo \in 0..MaxTimeout :
           InitDetector(dir, dur, tmo, 1, 1)

NextCross ==
    \/ \E rp \in CdBlocks : CdProcess(rp)
    \/ \E v \in 0..MaxNum : CdSetNumPrev(v)
    \/ \E v \in 0..MaxNum : CdSetNumNext(v)
    \/ \E d \in 0..MaxDuration : CdSetEventDur(d)
    \/ \E c \in 0..1 : CdSetEventChan(c)

SpecCross == InitCross /\ [][NextCross]_vars

\* C19 (SpecCross): two consecutive ON events are at least timeout samples
\* apart in absolute sample time, whatever the blocks and the live changes
\* of the parameters other than the timeout
C19_OnEventsTimeoutApart == \A gap \in cdGaps : gap >= timeout

\* C20 (SpecCross): every ON event at time t is followed by an OFF event at
\* time t + eventDuration: no OFF event that is owed fails to come
C20_OffAfterDuration == cdMissed = {}

(***************************************************************************)
(* SpecEditor: the editor on a stopped processor: texts typed into the     *)
(* fields, items picked, the slider's listener, and saved configurations   *)
(* loaded.                                                                 *)
(***************************************************************************)
EdTexts == {<<"q">>, <<"5">>, <<"n", "a", "n">>}

LoadAttrs ==
    {[f \in (Fields \ {"numPast"}) \cup {"processADC"} |->
        CASE f = "processLength" -> pl
          [] f = "numFuture" -> nf
          [] f = "calcInterval" -> calc
          [] OTHER -> Absent] :
        pl \in {Absent, Attr(<<"8">>), Attr(<<"q">>)},
        nf \in {Absent, Attr(<<"1">>), Attr(<<"q">>)},
        calc \in {Absent, Attr(<<"5">>)}}

InitEdit ==
    /\ InitProcessor(1, Pow2(START_PLEN_POW), 1)
    /\ InitSelection(1)
    /\ InitDetector(dPos, 1, 1, 1, 1)
    /\ InitEditor(Pow2(START_PLEN_POW), 1)
    /\ FnIdle

\* the two limits and the two cutoffs share their handlers' code: one of
\* each pair gets every text, the other an unparsable one
FieldTexts(f) == IF f \in {"glitchLim", "highCut"} THEN {<<"q">>} ELSE EdTexts

NextEdit ==
    \/ \E f \in Fields \ {"processLength"} : \E t \in FieldTexts(f) : EditLabel(f, t)
    \/ \E t \in EdTexts : EditComboText(t)
    \/ \E id \in MIN_PLEN_POW..MAX_PLEN_POW : SelectComboItem(id)
    \/ SliderEvent
    \/ \E attrs \in LoadAttrs : Load(attrs)

SpecEditor == InitEdit /\ [][NextEdit]_vars

\* whether the text typed into a field parses: std::stof for the cutoffs,
\* std::stoi for the others
Parsable(field, text) ==
    IF field \in {"lowCut", "highCut"} THEN Stof(text).ok ELSE Stoi(text).ok

\* a setParameter call whose value lies in the range of its parameter
InRange(call) ==
    CASE call[1] = "pQueueSize" ->
           call[2] \in Pow2(MIN_PLEN_POW)..Pow2(MAX_PLEN_POW)
      [] call[1] = "pNumFuture" ->
           call[2] >= 0 /\ call[2] <= Pow2(MAX_PLEN_POW) - AR_ORDER
      [] call[1] \in {"pRecalcInterval", "pGlitchLimit"} ->
           call[2] >= 0 /\ call[2] <= INT_MAX
      [] call[1] \in {"pLowcut", "pHighcut"} ->
           ~call[2].nan /\ call[2].v >= CUT_MIN /\ call[2].v <= CUT_MAX
      [] OTHER -> TRUE

\* the text of the value a field stands for
ValueText(field) ==
    CASE field = "processLength" -> IntToText(processLength)
      [] field = "numPast" -> IntToText(sliderValue)
      [] field = "numFuture" -> IntToText(sliderMax - sliderValue)
      [] field = "calcInterval" -> IntToText(calcInterval)
      [] field = "glitchLim" -> IntToText(glitchLimit)
      [] field = "lowCut" -> FloatToText(lowCut)
      [] field = "highCut" -> FloatToText(highCut)

\* C14: after a text was typed into a field, every setParameter call made
\* carries a value inside the range of its parameter when the text parses,
\* and when it does not parse there was no call, no parameter changed and
\* the field shows its value again
C14_InvalidNeverPropagated ==
    edInput.kind \in {"label", "combo"} =>
        IF Parsable(edInput.field, edInput.text)
        THEN \A i \in DOMAIN edCalls : InRange(edCalls[i])
        ELSE /\ edCalls = <<>>
             /\ edChanged = {}
             /\ labelText[edInput.field] = ValueText(edInput.field)

\* the parameter an attribute of the saved configuration stands for
ParamOfAttr(a) ==
    CASE a = "processLength" -> "pl"
      [] a = "numFuture" -> "nf"
      [] a = "calcInterval" -> "calc"
      [] a = "glitchLim" -> "glitch"
      [] a = "processADC" -> "adc"
      [] a = "lowCut" -> "low"
      [] a = "highCut" -> "high"

\* C15: after a saved configuration was loaded, the parameter of every
\* attribute that was absent, or was a number that does not parse, has the
\* value it had before the load
C15_AbsentAttributeKeepsValue ==
    edInput.kind = "load" =>
        \A a \in DOMAIN edInput.attrs :
            (~edInput.attrs[a].has
                \/ (a # "processADC" /\ ~Parsable(a, edInput.attrs[a].text)))
            => ParamOfAttr(a) \notin edChanged

(***************************************************************************)
(* unwrapBuffer, on the blocks of SpecUnwrap.                              *)
(***************************************************************************)
\* no step of the block, the one from the last output sample included, is
\* larger than a half turn
NoJumps(wp, last) ==
    \A i \in 0..(Len(wp) - 1) :
        Abs(At(wp, i) - (IF i = 0 THEN last ELSE At(wp, i - 1))) <= HalfTurn

\* C27 (SpecUnwrap): a block without a step of more than 180 degrees, the
\* step from the last output sample included, leaves unwrapBuffer as it
\* came, whatever the glitch limit and the block length
C27_UnwrappedBlockUnchanged ==
    (fnPc = "unwrapped" /\ NoJumps(fnRaw, fnLast)) => fnUnwrapped = fnRaw

C27_Witness ==
    /\ fnPc = "unwrapped" /\ NoJumps(fnRaw, fnLast)
    /\ Len(fnRaw) = MaxBlock /\ fnLimit = MaxGlitch
    /\ fnRaw[2] - fnRaw[1] = HalfTurn
    /\ fnRaw[1] - fnLast = -HalfTurn
    /\ fnUnwrapped = fnRaw

\* the iterations of the outer loop on the block of the harness
FnIterations == UnwrapIterations(fnRaw, 0, Len(fnRaw), fnLast, fnLimit)

\* the indices after s, within the glitch limit and the block, at which w
\* steps by more than a half turn against the direction of diff
OppositeJumps(w, s, diff, limit) ==
    {j \in (s + 1)..Min(s + limit, Len(w) - 1) :
        /\ Abs(At(w, j) - At(w, j - 1)) > HalfTurn
        /\ (diff > 0) # (At(w, j) - At(w, j - 1) > 0)}

\* w with the samples of [from, to) moved by a turn against the direction
\* of diff
TurnedBack(w, from, to, diff) ==
    [i \in 1..Len(w) |->
        IF from <= i - 1 /\ i - 1 < to
        THEN w[i] + (IF diff > 0 THEN -Turn ELSE Turn) ELSE w[i]]

\* C28 (SpecUnwrap): when the scan stands at a jump at index i and the
\* first opposite jump within the glitch limit and the block is at j, the
\* iteration moves exactly the samples of [i, j) by a turn against the jump,
\* and the block unwrapBuffer returns is what scanning on from j gives
C28_GlitchSectionShifted ==
    fnPc = "unwrapped" =>
        \A k \in DOMAIN FnIterations :
            LET i == FnIterations[k].at
                w == FnIterations[k].wp
                diff == At(w, i) - (IF i = 0 THEN fnLast ELSE At(w, i - 1))
                opp == OppositeJumps(w, i, diff, fnLimit)
            IN  (Abs(diff) > HalfTurn /\ opp # {}) =>
                    LET j == CHOOSE x \in opp : \A y \in opp : x <= y
                        w2 == TurnedBack(w, i, j, diff)
                    IN  /\ k < Len(FnIterations) => FnIterations[k + 1].wp = w2
                        /\ fnUnwrapped = UnwrapFrom(w2, j, Len(fnRaw), fnLast, fnLimit)

C28_Witness ==
    /\ fnPc = "unwrapped"
    /\ fnLast = Deg(-170) /\ fnLimit = 2
    /\ fnRaw = <<Deg(170), Deg(170), Deg(-170)>>
    /\ fnUnwrapped = <<Deg(-190), Deg(-190), Deg(-170)>>

\* the part of C29 about the iterations of the loop: at a jump without an
\* opposite jump within the glitch limit and the block, an upward jump whose
\* search reaches the end of the block moves the samples from the jump to
\* the end of the block down by a turn, and any other jump moves nothing
C29_EndRuleWhereScanned ==
    fnPc = "unwrapped" =>
        \A k \in DOMAIN FnIterations :
            LET i == FnIterations[k].at
                w == FnIterations[k].wp
                n == Len(fnRaw)
                diff == At(w, i) - (IF i = 0 THEN fnLast ELSE At(w, i - 1))
                after == IF k < Len(FnIterations) THEN FnIterations[k + 1].wp
                         ELSE fnUnwrapped
            IN  (Abs(diff) > HalfTurn /\ OppositeJumps(w, i, diff, fnLimit) = {}) =>
                    after = IF diff > 0 /\ i + fnLimit >= n - 1
                            THEN TurnedBack(w, i, n, diff) ELSE w

\* C29 (SpecUnwrap): the same, and an upward jump into the last sample of
\* the block is unwrapped too, so that the block never ends on an upward
\* step of more than 180 degrees when the glitch limit is not 0
C29_UpwardJumpAtEndUnwrapped ==
    /\ C29_EndRuleWhereScanned
    /\ (fnPc = "unwrapped" /\ fnLimit > 0) =>
          LET n == Len(fnRaw)
          IN  ~(At(fnUnwrapped, n - 1)
                  - (IF n = 1 THEN fnLast ELSE At(fnUnwrapped, n - 2)) > HalfTurn)

\* C30 (SpecUnwrap): every sample leaves unwrapBuffer moved by a whole
\* number of turns, and the outer loop runs at most nSamples - 1 times
C30_ShiftsAreWholeTurns ==
    fnPc = "unwrapped" =>
        /\ \A i \in 1..Len(fnRaw) : (fnUnwrapped[i] - fnRaw[i]) % Turn = 0
        /\ Len(FnIterations) <= Len(fnRaw) - 1

C30_Witness ==
    /\ fnPc = "unwrapped"
    /\ Len(fnRaw) = MaxBlock
    /\ Len(FnIterations) = Len(fnRaw) - 1
    /\ fnUnwrapped[1] = fnRaw[1]
    /\ fnUnwrapped[2] = fnRaw[2] - Turn

(***************************************************************************)
(* The channel state and the two threads.                                  *)
(***************************************************************************)
\* process() is past lines 271-299 of the channel it works on
PastPromotion == rtPc \in {"output", "params", "last"}

\* C21 (Spec): process() moves a channel from NOT_FULL to FULL_NO_AR only in
\* the block in which the samples ingested since the last reset first reach
\* historyLength, and with the snapshot written; that block does not pass
\* lines 271-299 without the move; and no snapshot is written before the
\* ingested samples have reached historyLength
C21_PendingInTheFillingBlock ==
    /\ []((PastPromotion /\ firstFull) => wasPending[rtChan])
    /\ [](\A c \in Chans : snapped[c] => ingested[c] >= historyLength)
    /\ [][\A c \in Chans :
            (chanState[c] = NOT_FULL /\ chanState'[c] = FULL_NO_AR) =>
                /\ rtPc = "promote" /\ rtChan = c
                /\ firstFull
                /\ snapped[c]]_vars

\* C22 (SpecReconfig): every step that changes the state of a channel is
\* NOT_FULL to FULL_NO_AR by process(), FULL_NO_AR to FULL_AR by the
\* fitting thread, or a reset to NOT_FULL by disable() or initialize()
C22_StateOnlyForward ==
    [][\A c \in Chans :
          chanState'[c] # chanState[c] =>
              \/ /\ chanState[c] = NOT_FULL /\ chanState'[c] = FULL_NO_AR
                 /\ rtPc = "promote" /\ rtChan = c
              \/ /\ chanState[c] = FULL_NO_AR /\ chanState'[c] = FULL_AR
                 /\ arPc = "write" /\ arChan = c
              \/ /\ chanState'[c] = NOT_FULL
                 /\ Disable \/ (\E w \in WindowLens : SetQueueSize(w))]_vars

\* C24 (Spec): the fitting thread holds the lock of a channel's snapshot
\* only while it copies that snapshot (lines 555-558), never during the
\* fit, the write of the coefficients or the wait
C24_LockOnlyWhileCopying ==
    \A c \in Chans : sdbLock[c] = "ar" => (arPc = "copy" /\ arChan = c)

C24_Witness ==
    /\ sdbLock[rtChan] = "ar" /\ arPc = "copy" /\ arChan = rtChan
    /\ arIdx > 0
    /\ rtPc = "lock"

(***************************************************************************)
(* SpecFair: two channels and both threads of an engine that stays         *)
(* running once it is enabled, with the scheduling the code relies on: the *)
(* fitting thread keeps running (its timer keeps ringing), a thread that   *)
(* waits for a lock which is released again and again gets it, and         *)
(* process() leaves its critical section.                                  *)
(* SpecStop: one channel, both threads, enable() and disable(), under the  *)
(* same scheduling.                                                        *)
(***************************************************************************)
InitFair == InitEngine(2, AR_ORDER + 1, 1) /\ FnIdle

NextFair ==
    \/ RealTime({AR_ORDER}, 1, OnePhase)
    \/ Sweep(OneFit)
    \/ Enable

NextStop ==
    \/ RealTime({AR_ORDER}, 1, OnePhase)
    \/ Fitting(OneFit)
    \/ Lifecycle

\* the steps of run() that wait for nothing but the thread's own turn
ThreadSteps ==
    \/ ARTop
    \/ ARCheck
    \/ ARCopy
    \/ ARUnlock
    \/ \E result \in OneFit : ARFit(result)
    \/ ARWrite
    \/ ARSetState
    \/ ARWaitTimer
    \/ ARWaitExit

Fairness ==
    /\ WF_vars(ThreadSteps)
    /\ SF_vars(ARLock)
    /\ WF_vars(ProcessSnapshotWrite \/ ProcessUnlock)

SpecFair == InitFair /\ [][NextFair]_vars /\ Fairness

SpecStop == Init /\ [][NextStop]_vars /\ Fairness

\* C23 (SpecFair): while the engine stays running, a channel that is
\* FULL_NO_AR becomes FULL_AR, and a channel becomes FULL_AR only by the
\* step of the fitting thread that follows the write of all AR_ORDER
\* coefficients of a completed fit of that channel
C23_PendingBecomesReady ==
    /\ \A c \in 1..2 : (chanState[c] = FULL_NO_AR) ~> (chanState[c] = FULL_AR)
    /\ [][\A c \in Chans :
            (chanState[c] # FULL_AR /\ chanState'[c] = FULL_AR) =>
                /\ arPc = "write" /\ arChan = c /\ arIdx >= AR_ORDER
                /\ arParams[c] = paramsTemp
                /\ paramsTemp \in OneFit]_vars

C23_Witness ==
    /\ acquiring
    /\ chanState[1] = FULL_AR /\ chanState[2] = FULL_AR
    /\ wasPending[1] /\ wasPending[2]
    /\ arParams[2] \in OneFit

\* C25 (SpecStop): once the exit of the fitting thread is requested, the
\* thread returns from run() unless the engine is enabled again first, and
\* it starts no sweep any more: at the top of its loop it returns
C25_ExitRequestHonoured ==
    /\ shouldExit ~> (~shouldExit \/ arPc = "idle")
    /\ [][(shouldExit /\ arPc = "top" /\ arPc' # "top") => arPc' = "idle"]_vars
    /\ [][(shouldExit /\ arPc = "wait" /\ arPc' # "wait")
             => arPc' \in {"idle", "top"}]_vars

C25_Witness ==
    /\ shouldExit /\ ~acquiring /\ arPc = "idle"
    /\ arParams[1] \in OneFit
    /\ chanState[1] = NOT_FULL

(***************************************************************************)
(* SpecTimer: run() with its timer, enable(), disable() and a refit        *)
(* interval that changes at any time.                                      *)
(***************************************************************************)
MaxInterval == 2

NextTimer ==
    \/ Lifecycle
    \/ ARTop
    \/ ARCheck
    \/ ARUpdateInterval
    \/ ARCheckRead
    \/ ARCheckClear
    \/ ARWaitBody
    \/ Tick
    \/ \E v \in 1..MaxInterval : SetRecalcInterval(v)

SpecTimer == Init /\ [][NextTimer]_vars

\* the wait ends only by a check() that has read a ring of the timer
C26_WaitEndsOnRing ==
    [][(arPc = "wait" /\ arPc' = "top") => (waitPc = "clear" /\ temp)]_vars

\* C26 (SpecTimer): the step of the wait loop that observes a changed
\* calcInterval ends the wait: the thread is at the top of its loop, about
\* to start the next sweep
C26_IntervalChangeEndsWait ==
    [][(arPc = "wait" /\ waitPc = "body" /\ ~shouldExit
           /\ calcInterval # currInterval /\ currInterval' = calcInterval)
         => arPc' = "top"]_vars

(***************************************************************************)
(* SpecSmooth: smoothBuffer on every block of phases up to MaxBlock        *)
(* samples, every last output sample and every glitch limit.  process()    *)
(* reads glitchLimit anew in smoothBuffer (line 393), so that a block      *)
(* which unwrapBuffer has left as it was under a limit of 0 meets any      *)
(* limit here.                                                             *)
(***************************************************************************)
InitSmooth ==
    /\ InitEngine(1, AR_ORDER + 1, 1)
    /\ fnPc = "unwrapped"
    /\ fnLast \in FnLasts
    /\ fnLimit \in GlitchLimits
    /\ fnRaw \in UNION {[1..n -> FnPhases] : n \in 1..MaxBlock}
    /\ fnUnwrapped = fnRaw
    /\ fnSmoothed = <<>>
    /\ HilbertIdle
    /\ ContainersIdle

NextSmooth == FnSmooth

SpecSmooth == InitSmooth /\ [][NextSmooth]_vars

\* the first sample of the block handed to smoothBuffer is below the last
\* output sample by more than 0 and less than a half turn
FnSmallDrop ==
    /\ At(fnUnwrapped, 0) - fnLast < 0
    /\ At(fnUnwrapped, 0) - fnLast > -HalfTurn

\* the signal is above last at offset e, or would be after a wrap upwards
CrossingAt(wp, e, last) ==
    \/ At(wp, e) > last
    \/ At(wp, e) - At(wp, e - 1) > HalfTurn /\ At(wp, e) + Turn > last

\* the offsets within the limit at which the block handed to smoothBuffer
\* crosses the last output sample
FnCrossings ==
    {e \in 1..Min(fnLimit, Len(fnUnwrapped) - 1) :
        CrossingAt(fnUnwrapped, e, fnLast)}

\* C31 (SpecSmooth): smoothBuffer changes a sample only if the first sample
\* is below the last output sample by more than 0 and less than 180 degrees
\* and the block crosses the last output sample at an offset between 1 and
\* min(glitchLimit, n - 1); otherwise it returns the block as it was
C31_SmoothOnlySmallDropWithCrossing ==
    (fnPc = "smoothed" /\ ~(FnSmallDrop /\ FnCrossings # {}))
        => fnSmoothed = fnUnwrapped

C31_Witness ==
    /\ fnPc = "smoothed"
    /\ FnSmallDrop
    /\ FnCrossings = {}
    /\ \E e \in 1..(Len(fnUnwrapped) - 1) : CrossingAt(fnUnwrapped, e, fnLast)
    /\ fnSmoothed = fnUnwrapped

\* the first crossing and the value the block has there after a wrap
FnEnd == CHOOSE e \in FnCrossings : \A d \in FnCrossings : e <= d
FnTarget ==
    IF At(fnUnwrapped, FnEnd) > fnLast
    THEN At(fnUnwrapped, FnEnd)
    ELSE At(fnUnwrapped, FnEnd) + Turn

\* C32 (SpecSmooth): with the crossing found at offset e, sample i < e is
\* last + (i + 1)(phase[e] - last)/(e + 1), where phase[e] is the value at e
\* (after the wrap, if it took one to cross); the samples rise strictly from
\* the last output sample to phase[e], and the samples after e are as before
C32_InterpolatedUpToCrossing ==
    (fnPc = "smoothed" /\ FnSmallDrop /\ FnCrossings # {}) =>
        /\ At(fnSmoothed, FnEnd) = FnTarget
        /\ \A i \in 0..(FnEnd - 1) :
              /\ (FnEnd + 1) * (At(fnSmoothed, i) - fnLast)
                    = (i + 1) * (FnTarget - fnLast)
              /\ At(fnSmoothed, i) < At(fnSmoothed, i + 1)
        /\ fnLast < At(fnSmoothed, 0)
        /\ \A i \in (FnEnd + 1)..(Len(fnUnwrapped) - 1) :
              At(fnSmoothed, i) = At(fnUnwrapped, i)

C32_Witness ==
    /\ fnPc = "smoothed" /\ FnSmallDrop /\ FnCrossings # {}
    /\ FnEnd = 2
    /\ FnTarget = At(fnUnwrapped, FnEnd) + Turn
    /\ At(fnSmoothed, 0) # At(fnUnwrapped, 0)
    /\ At(fnSmoothed, 1) # At(fnUnwrapped, 1)

(***************************************************************************)
(* SpecHilbert: hilbertManip on every spectrum of 1..MaxSpectrum bins with *)
(* real and imaginary parts 1 or -1.                                       *)
(***************************************************************************)
MaxSpectrum == 4

Bins == [re : {-1, 1}, im : {-1, 1}]

InitHilbert ==
    /\ InitEngine(1, AR_ORDER + 1, 1)
    /\ fnPc = "spectrum" /\ fnLast = 0 /\ fnLimit = 0
    /\ fnRaw = <<>> /\ fnUnwrapped = <<>> /\ fnSmoothed = <<>>
    /\ fftData \in UNION {[1..n -> Bins] : n \in 1..MaxSpectrum}
    /\ fftOut = <<>>
    /\ ContainersIdle

\* line 330
FnHilbert ==
    /\ fnPc = "spectrum"
    /\ fftOut' = HilbertManip(fftData)
    /\ fnPc' = "hilbert"
    /\ UNCHANGED <<cfgVars, chanVars, acquiring, rtVars, arVars, seqNo, histVars,
                   fnLast, fnLimit, fnRaw, fnUnwrapped, fnSmoothed, fftData,
                   perChan, extVars>>

NextHilbert == FnHilbert

SpecHilbert == InitHilbert /\ [][NextHilbert]_vars

\* the fraction out is k/n times the bin z
ScaledBy(out, z, k, n) ==
    /\ out.den > 0
    /\ out.re * n = k * z.re * out.den
    /\ out.im * n = k * z.im * out.den

\* ceil(n / 2): the least k with 2k >= n
CeilHalf(n) == CHOOSE k \in 0..n : 2 * k >= n /\ \A j \in 0..n : 2 * j >= n => k <= j

\* C33 (SpecHilbert): in a spectrum of n bins, even or odd, bin 0 and, for
\* even n, bin n/2 are scaled by 1/n, bins 1..ceil(n/2)-1 are scaled by 2/n,
\* every other bin is 0, and no bin is in two of these classes
C33_BinsClassified ==
    fnPc = "hilbert" =>
        LET n == Len(fftData)
            Single == {0} \cup {i \in 0..(n - 1) : n % 2 = 0 /\ 2 * i = n}
            Double == 1..(CeilHalf(n) - 1)
        IN  /\ Len(fftOut) = n
            /\ Single \cap Double = {}
            /\ \A i \in 0..(n - 1) :
                  LET z == At(fftData, i)
                      out == At(fftOut, i)
                  IN  IF i \in Single THEN ScaledBy(out, z, 1, n)
                      ELSE IF i \in Double THEN ScaledBy(out, z, 2, n)
                      ELSE out.re = 0 /\ out.im = 0

C33_Witness ==
    /\ fnPc = "hilbert"
    /\ Len(fftData) = 4
    /\ ScaledBy(At(fftOut, 0), At(fftData, 0), 1, 4)
    /\ ScaledBy(At(fftOut, 1), At(fftData, 1), 2, 4)
    /\ ScaledBy(At(fftOut, 2), At(fftData, 2), 1, 4)
    /\ At(fftOut, 3).re = 0 /\ At(fftOut, 3).im = 0

(***************************************************************************)
(* SpecShort: one channel, both threads, and setParameter(pNumFuture)      *)
(* called before acquisition with any value up to AR_ORDER, which leaves   *)
(* a history of 1 to AR_ORDER + 1 samples.                                 *)
(***************************************************************************)
NextShort ==
    \/ RealTime({1, AR_ORDER}, RunMod, OnePhase)
    \/ Sweep(FitResults)
    \/ Enable
    \/ \E p \in 0..AR_ORDER : ParamNumFuture(p)

SpecShort == Init /\ [][NextShort]_vars

\* the value arPredict writes at index t of the window, from the window as
\* process() holds it after the call
PredictedAt(t) ==
    LET sum[j \in 0..AR_ORDER] ==
            IF j = 0 THEN 0
            ELSE sum[j - 1] + currParams[j] * WindowAt(dataToProcess, t - j)
    IN  -sum[AR_ORDER]

\* process() is past line 317 in the branch of a MODEL_READY channel
Predicted == rtPc = "last" /\ outState = FULL_AR

\* the window is the snapshot below historyLength and chained predictions
\* from there on
ChainedPrediction ==
    /\ DOMAIN dataToProcess = 0..(processLength - 1)
    /\ \A t \in 0..(historyLength - 1) :
          dataToProcess[t] = IF t < Len(sharedDataBuffer[rtChan])
                             THEN sharedDataBuffer[rtChan][t + 1] ELSE Uninit
    /\ \A t \in historyLength..(processLength - 1) :
          dataToProcess[t] = PredictedAt(t)

\* with a history of at least AR_ORDER samples the prediction is chained
\* and reads the window only
C34_PredictedFromLongHistory ==
    (Predicted /\ historyLength >= AR_ORDER) =>
        /\ ChainedPrediction
        /\ \A t \in historyLength..(processLength - 1) :
              PredictReads(t) \subseteq 0..(t - 1)

\* C34 (SpecShort): after arPredict, entry t of the window is minus the sum
\* of a[k] x[t-1-k] for every t from historyLength on, every entry it has
\* read for that is one of the AR_ORDER entries of the window before t
\* (samples of the snapshot or earlier predictions), and the entries below
\* historyLength are the snapshot
C34_PredictionReadsWindow ==
    Predicted =>
        /\ ChainedPrediction
        /\ \A t \in historyLength..(processLength - 1) :
              PredictReads(t) \subseteq 0..(t - 1)

(***************************************************************************)
(* SpecSplit: the handlers of the editor that set the window length or the *)
(* split into past and future: the combo box, the two labels, the slider   *)
(* (dragged, or moved by updateFromProcessor) and a loaded configuration.  *)
(***************************************************************************)
NextSplit ==
    \/ \E f \in {"numPast", "numFuture"} : \E t \in EdTexts : EditLabel(f, t)
    \/ \E t \in EdTexts : EditComboText(t)
    \/ \E id \in MIN_PLEN_POW..MAX_PLEN_POW : SelectComboItem(id)
    \/ SliderEvent
    \/ \E v \in AR_ORDER..Pow2(MAX_PLEN_POW) : DragSlider(v)
    \/ \E attrs \in LoadAttrs : Load(attrs)

SpecSplit == InitEdit /\ [][NextSplit]_vars

\* the window length and the predicted length after the first k calls of
\* calls, made on the values pl and nf
RECURSIVE SplitAfter(_, _, _, _)
SplitAfter(pl, nf, calls, k) ==
    IF k = 0 THEN [pl |-> pl, nf |-> nf]
    ELSE LET before == SplitAfter(pl, nf, calls, k - 1)
         IN  CASE calls[k][1] = "pQueueSize" -> [before EXCEPT !.pl = calls[k][2]]
               [] calls[k][1] = "pNumFuture" -> [before EXCEPT !.nf = calls[k][2]]
               [] OTHER -> before

SplitValid(st) == 0 <= st.nf /\ st.nf <= st.pl - AR_ORDER

\* C35 (SpecSplit; every step is the run of one handler of the editor):
\* 0 <= numFuture <= processLength - AR_ORDER holds in the processor before
\* the handler, after each setParameter call the handler makes, and after it
C35_EditorKeepsSplit ==
    /\ [](0 <= numFuture /\ numFuture <= processLength - AR_ORDER)
    /\ [][\A k \in 0..Len(edCalls') :
            SplitValid(SplitAfter(processLength, numFuture, edCalls', k))]_vars

C35_Witness ==
    /\ edInput.kind \in {"item", "combo"}
    /\ Len(edCalls) = 2
    /\ edCalls[1][1] = "pNumFuture" /\ edCalls[2][1] = "pQueueSize"
    /\ "nf" \in edChanged
    /\ numFuture = processLength - AR_ORDER
    /\ sliderMax = processLength /\ sliderValue = AR_ORDER

\* process() is between two blocks
BlockBoundary == rtPc = "idle"

\* the ring buffer of no channel holds more than historyLength samples
C36_AtMostHistory ==
    \A c \in Chans : GetNumReady(fifoManager[c]) <= historyLength

\* C36 (Spec): the ring buffer of a channel never holds more than
\* historyLength samples, and between two blocks the ring buffer of a
\* channel that is FULL_NO_AR or FULL_AR holds exactly historyLength samples
C36_FullWhilePendingOrReady ==
    \A c \in Chans :
        /\ GetNumReady(fifoManager[c]) <= historyLength
        /\ (BlockBoundary /\ chanState[c] \in {FULL_NO_AR, FULL_AR})
              => GetNumReady(fifoManager[c]) = historyLength

\* the block of the channel in progress as the transform left it: the
\* cleared prefix and the raw phases raw of the processed samples
RawBlock(raw) ==
    [i \in 1..nSamples |-> IF i <= startIndex THEN 0 ELSE raw[i - startIndex]]

\* the block in progress is the block of raw phases raw, unwrapped and
\* smoothed after the sample last
ContinuedFrom(last) ==
    \E raw \in [1..nSamplesToProcess -> RawPhases] : \E g \in {0, MaxGlitch} :
        buffer = SmoothBuffer(UnwrapBuffer(RawBlock(raw), nSamples, last, g),
                              nSamples, last, g)

\* C37 (Spec): the step that ends the block of a channel leaves lastSample
\* of the channel equal to the last sample of the block as it leaves
\* process(), which is 0 unless the block took the phase branch; lastSample
\* changes in no other way but a reset to 0; and a block that took the phase
\* branch is its raw phases unwrapped and smoothed after lastSample
C37_LastSampleCarriesOn ==
    /\ [][(rtPc = "last" /\ rtPc' # "last") =>
             /\ lastSample'[rtChan] = buffer[nSamples]
             /\ outState # FULL_AR => lastSample'[rtChan] = 0]_vars
    /\ [][\A c \in Chans :
             lastSample'[c] # lastSample[c] =>
                 \/ rtPc = "last" /\ rtPc' # "last" /\ c = rtChan
                 \/ ~acquiring' /\ lastSample'[c] = 0]_vars
    /\ []((rtPc = "last" /\ outState = FULL_AR)
             => ContinuedFrom(lastSample[rtChan]))

C37_Witness ==
    /\ rtPc = "last" /\ outState = FULL_AR
    /\ lastSample[rtChan] \notin RawPhases \cup {0}
    /\ buffer[1] \notin RawPhases
    /\ ~ContinuedFrom(0)

(***************************************************************************)
(* SpecPair: two channels whose "+CH" flags are switched while the         *)
(* acquisition runs, each with blocks of its own length (empty or AR_ORDER  *)
(* samples), the fitting thread sweeping both.                             *)
(***************************************************************************)
InitPair == InitEngine(2, AR_ORDER + 1, 1) /\ FnIdle

NextPair ==
    \/ RealTime({AR_ORDER}, RunMod, OnePhase)
    \/ \E n \in {0, AR_ORDER} : ProcessBypass(n, RunMod)
    \/ Sweep(OneFit)
    \/ Enable
    \/ \E c \in 1..2, on \in BOOLEAN : SetEnabledState(c, on)

SpecPair == InitPair /\ [][NextPair]_vars

\* the per-channel state of channel c
ChanView(c) ==
    <<fifoManager[c], historyFifo[c], chanState[c], sharedDataBuffer[c],
      sdbLock[c], arParams[c], lastSample[c], seqNo[c]>>

\* a step of process() inside the iteration of channel c
ProcessStepOn(c) == rtVars' # rtVars /\ rtChan = c

\* a step of run() inside the sweep's iteration of channel c
RunStepOn(c) == arVars' # arVars /\ arChan = c

\* the fifo of channel c holds the n most recent samples of the channel's own
\* stream, oldest first
OwnSamples(c) ==
    LET af == fifoManager[c]
        n == GetNumReady(af)
    IN  \A i \in 0..(n - 1) :
            historyFifo[c][(af.vs + i) % af.size] = RecentTag(c, n, i, RunMod)

MaxChans == 4

\* lines 442-448
UpdateSettings(n) ==
    /\ n # perChan.numChannels
    /\ perChan' = Initialize(perChan, n)
    /\ UNCHANGED <<cfgVars, chanVars, acquiring, rtVars, arVars, seqNo, histVars,
                   fnPc, fnLast, fnLimit, fnRaw, fnUnwrapped, fnSmoothed, hbVars,
                   extVars>>

\* line 161: initialize() with the number of inputs as it is
Reinitialize ==
    /\ perChan' = Initialize(perChan, perChan.numChannels)
    /\ UNCHANGED <<cfgVars, chanVars, acquiring, rtVars, arVars, seqNo, histVars,
                   fnPc, fnLast, fnLimit, fnRaw, fnUnwrapped, fnSmoothed, hbVars,
                   extVars>>

\* lines 169-174 for an input of the processor
SetChannelFlag(chan, on) ==
    /\ chan < perChan.numChannels
    /\ perChan' = [perChan EXCEPT !.shouldProcessChannel = ArraySet(@, chan, on)]
    /\ UNCHANGED <<cfgVars, chanVars, acquiring, rtVars, arVars, seqNo, histVars,
                   fnPc, fnLast, fnLimit, fnRaw, fnUnwrapped, fnSmoothed, hbVars,
                   extVars>>

InitChannels == InitEngine(1, AR_ORDER + 1, 1) /\ FnIdle

NextChannels ==
    \/ \E n \in 0..MaxChans : UpdateSettings(n)
    \/ Reinitialize
    \/ \E chan \in 0..(MaxChans - 1), on \in BOOLEAN : SetChannelFlag(chan, on)

SpecChannels == InitChannels /\ [][NextChannels]_vars

\* after initialize() every OwnedArray holds at least numChannels objects and
\* the first numChannels of each are new; chanState and lastSample hold at
\* least numChannels reset entries
C39_FirstEntriesFresh ==
    LET n == perChan.numChannels
    IN  /\ \A name \in OwnedNames :
               /\ Len(perChan.owned[name]) >= n
               /\ \A k \in 1..n : perChan.owned[name][k] = "new"
        /\ Len(perChan.chanState) >= n /\ Len(perChan.lastSample) >= n
        /\ \A k \in 1..n : perChan.chanState[k] = NOT_FULL
                            /\ perChan.lastSample[k] = 0

\* C39 (SpecChannels): after initialize() with n inputs every OwnedArray
\* holds exactly n objects, all of them new
C39_ExactlyNEntries ==
    \A name \in OwnedNames :
        /\ Len(perChan.owned[name]) = perChan.numChannels
        /\ \A k \in 1..perChan.numChannels : perChan.owned[name][k] = "new"

\* the flags part of C39: a step of initialize() leaves the flag of every
\* channel that existed before as it was and gives every added channel the
\* flag TRUE
C39_FlagsKeptOrDefault ==
    [][perChan'.numChannels # perChan.numChannels =>
          \A k \in 1..perChan'.numChannels :
              perChan'.shouldProcessChannel[k] =
                  IF k <= perChan.numChannels
                  THEN perChan.shouldProcessChannel[k] ELSE TRUE]_vars

\* C40 (SpecCross): every OFF event is sent on the channel on which the ON
\* event it ends was sent, whatever the blocks and the live changes of the
\* event channel
C40_OffOnChannelOfOn ==
    \A k \in DOMAIN cdEvents :
        ~cdEvents[k].on => cdEvents[k].chan = cdEvents[k].of

====
